---- MODULE Spec2Model ----
(***************************************************************************)
(* Model of minitel_slideshow_tool.py: the videotex image encoder          *)
(* (primitive encoders, frame chunker, 6-bit translation).                 *)
(*                                                                         *)
(* Byte strings are sequences of integers 0..255.  The encoder functions   *)
(* are pure; each is an operator carrying the name of the Python function  *)
(* it models, and a call of it is one action: from pc = "call" with the    *)
(* arguments in `call` to pc = "return" with the value in `result`, or to  *)
(* pc = "raise" when the function raises.                                  *)
(***************************************************************************)
EXTENDS Integers, Sequences, FiniteSets, TLC

VARIABLES call, result, pc

\* convert_images: the input folder and the preview flag, the sorted list of
\* images, the number of loop iterations done, the path each iteration took,
\* the log, the output folder, the position in the function
VARIABLES folder, imgs, turn, outcomes, log, files, cpc

\* slideshow_handler: the sorted .vdt files given to the handlers, and the
\* state of each client connection
VARIABLES vdt_files, conns

\* slideshow server: the module globals, the event loops, the websocket
\* servers, the _runner threads, the _close_and_stop coroutines, the position
\* of the GUI thread
VARIABLES globals, loops, servers, threads, tasks, mainpc

\* relay client: the module globals running, ser and ws (0 is None; a serial
\* port or websocket is named by the session that opened it), the relay
\* sessions started by start_async, what the GUI thread did last
VARIABLES running, ser, ws, sessions, guipc

pureVars    == <<call, result, pc>>
convertVars == <<folder, imgs, turn, outcomes, log, files, cpc>>
handlerVars == <<vdt_files, conns>>
serverVars  == <<globals, loops, servers, threads, tasks, mainpc>>
relayVars   == <<running, ser, ws, sessions, guipc>>

vars == <<pureVars, convertVars, handlerVars, serverVars, relayVars>>

\* the state of each part of the program before it is used
PureIdle == call = [fn |-> "none"] /\ result = <<>> /\ pc = "idle"

ConvertIdle ==
    /\ folder = [exists |-> FALSE, names |-> {}, preview |-> FALSE]
    /\ imgs = <<>> /\ turn = 0 /\ outcomes = <<>> /\ log = <<>>
    /\ files = <<>> /\ cpc = "idle"

HandlerIdle == vdt_files = <<>> /\ conns = <<>>

ServerIdle ==
    /\ globals = [slideshow_server_running |-> FALSE, server_loop |-> 0,
                  server_thread |-> 0, slideshow_server |-> 0]
    /\ loops = <<>> /\ servers = <<>> /\ threads = <<>> /\ tasks = <<>>
    /\ mainpc = "idle"

RelayIdle ==
    /\ running = FALSE /\ ser = 0 /\ ws = 0 /\ sessions = <<>> /\ guipc = "idle"

(***************************************************************************)
(* Python integer and bytes primitives                                     *)
(***************************************************************************)
RECURSIVE BitOr(_, _)
\* a | b on non-negative integers
BitOr(a, b) ==
    IF a = 0 THEN b
    ELSE IF b = 0 THEN a
    ELSE (IF a % 2 = 1 \/ b % 2 = 1 THEN 1 ELSE 0) + 2 * BitOr(a \div 2, b \div 2)

RECURSIVE BitAnd(_, _)
\* a & b on non-negative integers
BitAnd(a, b) ==
    IF a = 0 \/ b = 0 THEN 0
    ELSE (IF a % 2 = 1 /\ b % 2 = 1 THEN 1 ELSE 0) + 2 * BitAnd(a \div 2, b \div 2)

\* a << n and a >> n  (a >> n floors, as Python's does)
Shl(a, n) == a * 2^n
Shr(a, n) == a \div 2^n

Min(a, b) == IF a <= b THEN a ELSE b

\* data[b:e] for 0 <= b <= e (0-based, end exclusive, clamped to the length)
Slice(data, b, e) ==
    [i \in 1..(Min(e, Len(data)) - Min(b, Len(data))) |-> data[Min(b, Len(data)) + i]]

Reverse(s) == [i \in 1..Len(s) |-> s[Len(s) + 1 - i]]

RECURSIVE Concat(_)
\* b"".join(seq of byte strings)
Concat(ss) ==
    IF Len(ss) = 0 THEN <<>>
    ELSE IF Len(ss) = 1 THEN ss[1]
    ELSE LET h == Len(ss) \div 2
         IN  Concat(SubSeq(ss, 1, h)) \o Concat(SubSeq(ss, h + 1, Len(ss)))

\* number of values of range(0, n, step)
RangeCount(n, step) == (n + step - 1) \div step

(***************************************************************************)
(* Protocol constants                                                      *)
(***************************************************************************)
PM == 35
PI == 64

(***************************************************************************)
(* encode_length                                                           *)
(***************************************************************************)
RECURSIVE LengthDigitsBadFlag(_, _)
\* as LengthDigits, with the continuation bit put on the first (least
\* significant) digit instead of on the others
LengthDigitsBadFlag(value, first) ==
    IF value = 0 THEN <<>>
    ELSE LET tmp0 == BitOr(BitAnd(value, 31), Shl(1, 6))
             tmp  == IF first THEN BitOr(tmp0, Shl(1, 5)) ELSE tmp0
         IN  <<tmp>> \o LengthDigitsBadFlag(Shr(value, 5), FALSE)

RECURSIVE LengthDigits(_, _)
\* the while loop: the bytes appended to `out`, least significant digit first
LengthDigits(value, first) ==
    IF value = 0 THEN <<>>
    ELSE LET tmp0 == BitOr(BitAnd(value, 31), Shl(1, 6))
             tmp  == IF ~first THEN BitOr(tmp0, Shl(1, 5)) ELSE tmp0
         IN  <<tmp>> \o LengthDigits(Shr(value, 5), FALSE)

encode_length(value) == Reverse(LengthDigits(value, TRUE) \o <<255>>)

(***************************************************************************)
(* encode_integer                                                          *)
(***************************************************************************)
RECURSIVE IntegerBits(_, _)
\* the while loop growing nbits by 7 until the number fits
IntegerBits(number, nbits) ==
    IF -Shl(1, nbits - 1) <= number /\ number < Shl(1, nbits - 1)
    THEN nbits
    ELSE IntegerBits(number, nbits + 7)

\* as encode_integer, with the unsigned range tested (number < 1 << nbits)
encode_integer_unsigned_fit(number, raw) ==
    LET RECURSIVE Bits(_)
        Bits(nb) == IF -Shl(1, nb - 1) <= number /\ number < Shl(1, nb)
                    THEN nb ELSE Bits(nb + 7)
        nbits  == Bits(7)
        biased == IF number < 0 THEN number + Shl(1, nbits) ELSE number
        count  == RangeCount(nbits, 7)
    IN  (IF raw THEN <<>> ELSE <<64, nbits \div 7>>)
        \o [j \in 1..count |-> BitAnd(Shr(biased, 7 * (count - j)), 127)]

encode_integer(number, raw) ==
    LET nbits  == IntegerBits(number, 7)
        biased == IF number < 0 THEN number + Shl(1, nbits) ELSE number
        count  == RangeCount(nbits, 7)
    IN  (IF raw THEN <<>> ELSE <<64, nbits \div 7>>)
        \o [j \in 1..count |-> BitAnd(Shr(biased, 7 * (count - j)), 127)]

(***************************************************************************)
(* encode_normalized                                                       *)
(*                                                                         *)
(* The float argument is the exactly representable value num / XDen.       *)
(* value * (1 << 26) is then the rational num / (XDen / 2^26), computed    *)
(* without rounding error, and round() is Python's round-half-to-even.     *)
(***************************************************************************)
XDen == 2^27

NBYTES == 4

\* round(p / q) for q > 0: nearest integer, ties to the even one
PyRound(p, q) ==
    LET f == p \div q
        r == p % q
    IN  IF 2 * r < q THEN f
        ELSE IF 2 * r > q THEN f + 1
        ELSE IF f % 2 = 0 THEN f ELSE f + 1

\* not (-1 <= value <= 1)
NormalizedOutOfRange(num) == ~(-XDen <= num /\ num <= XDen)

\* as NormalizedBias, with the plain two's-complement bias 1 << 28
NormalizedBiasTwosComplement(v) ==
    IF v < 0 THEN v + Shl(1, 7 * NBYTES) ELSE v

\* if v < 0: v = v + (1 << 28) - (1 << 26)
NormalizedBias(v) ==
    IF v < 0 THEN v + Shl(1, 7 * NBYTES) - Shl(1, 7 * NBYTES - 2) ELSE v

encode_normalized(num) ==
    LET scale == Shl(1, 7 * NBYTES - 2)
        v     == NormalizedBias(PyRound(num, XDen \div scale))
    IN  <<66, NBYTES>>
        \o [j \in 1..NBYTES |-> BitAnd(Shr(v, 7 * (NBYTES - j)), 127)]

(***************************************************************************)
(* split_chunks, translate_data, encode_image                              *)
(***************************************************************************)
\* as split_chunks, with the slice one byte short: data[pos:pos+chunk_size-1]
split_chunks_short_slice(data, chunk_size) ==
    IF chunk_size <= 0 \/ data = <<>>
    THEN << [chunk |-> data, final |-> TRUE] >>
    ELSE [k \in 1..RangeCount(Len(data), chunk_size) |->
            LET pos   == (k - 1) * chunk_size
                chunk == Slice(data, pos, pos + chunk_size - 1)
            IN  [chunk |-> chunk, final |-> pos + Len(chunk) >= Len(data)]]

\* as split_chunks, with final = (pos + len(chunk) > len(data))
split_chunks_never_final(data, chunk_size) ==
    IF chunk_size <= 0 \/ data = <<>>
    THEN << [chunk |-> data, final |-> TRUE] >>
    ELSE [k \in 1..RangeCount(Len(data), chunk_size) |->
            LET pos   == (k - 1) * chunk_size
                chunk == Slice(data, pos, pos + chunk_size)
            IN  [chunk |-> chunk, final |-> pos + Len(chunk) > Len(data)]]

\* the (chunk, final) pairs the generator yields, in order
split_chunks(data, chunk_size) ==
    IF chunk_size <= 0 \/ data = <<>>
    THEN << [chunk |-> data, final |-> TRUE] >>
    ELSE [k \in 1..RangeCount(Len(data), chunk_size) |->
            LET pos   == (k - 1) * chunk_size
                chunk == Slice(data, pos, pos + chunk_size)
            IN  [chunk |-> chunk, final |-> pos + Len(chunk) >= Len(data)]]

RECURSIVE EscapeByteBadShift(_, _, _)
\* as EscapeByte, with the shift 4 - idx instead of 4 - (idx << 1)
EscapeByteBadShift(chunk, idx, b0) ==
    IF idx >= Len(chunk) THEN b0
    ELSE EscapeByteBadShift(chunk, idx + 1,
                            BitOr(b0, Shl(Shr(chunk[idx + 1], 6), 4 - idx)))

RECURSIVE EscapeByte(_, _, _)
\* for idx, bt in enumerate(chunk): b0 |= ((bt >> 6) << (4 - (idx << 1)))
EscapeByte(chunk, idx, b0) ==
    IF idx >= Len(chunk) THEN b0
    ELSE EscapeByte(chunk, idx + 1,
                    BitOr(b0, Shl(Shr(chunk[idx + 1], 6), 4 - Shl(idx, 1))))

\* as TranslateGroup, with the low part not masked: (1<<6) | bt
TranslateGroupNoMask(chunk) ==
    <<EscapeByte(chunk, 0, Shl(1, 6))>>
    \o [i \in 1..Len(chunk) |-> BitOr(Shl(1, 6), chunk[i])]

\* one turn of the while loop: the bytes appended for one group of up to 3
TranslateGroup(chunk) ==
    <<EscapeByte(chunk, 0, Shl(1, 6))>>
    \o [i \in 1..Len(chunk) |-> BitOr(Shl(1, 6), BitAnd(chunk[i], 63))]

translate_data(data) ==
    Concat([k \in 1..RangeCount(Len(data), 3) |->
               TranslateGroup(Slice(data, 3 * (k - 1), 3 * (k - 1) + 3))])

\* as Frame, with the length field holding len(chunk) instead of len(chunk)+1
FrameLengthOffByOne(code, chunk) ==
    <<27, 112, PM, PI>> \o encode_length(Len(chunk)) \o <<code>> \o chunk

\* bytescat(0x1B, 0x70, PM, PI, encode_length(len(chunk)+1), code, chunk)
Frame(code, chunk) ==
    <<27, 112, PM, PI>> \o encode_length(Len(chunk) + 1) \o <<code>> \o chunk

\* the split size of the image loop: chunk_size, reduced when translating
ImageChunkSize(chunk_size, translation) ==
    IF translation THEN (((chunk_size - 1) * 3) \div 4) + 1 ELSE chunk_size

encode_image(header, image, chunk_size, translation) ==
    LET hs == split_chunks(header, chunk_size - 1)
        is == split_chunks(image, ImageChunkSize(chunk_size, translation))
    IN  [i \in 1..Len(hs) |->
            Frame(IF hs[i].final THEN 81 ELSE 80, hs[i].chunk)]
        \o
        [i \in 1..Len(is) |->
            Frame(IF is[i].final THEN 83 ELSE 82,
                  IF translation THEN translate_data(is[i].chunk)
                                 ELSE is[i].chunk)]

(***************************************************************************)
(* Bounds of the model and the inputs drawn within them                    *)
(***************************************************************************)
MaxHeaderLen == 4
MaxImageLen == 12
LongLen == 70
MaxChunk == 9
BigChunk == 34
DEFAULT_CHUNK_SIZE == 256
MaxTranslateLen == 4
MaxLengthValue == 1100
MaxSmallInt == 300
IntWindow == 20
NormWindow == 30

Byte == 0..255

\* n bytes seed, seed+step, seed+2*step, ... (mod 256)
Pattern(seed, step, n) == [i \in 1..n |-> (seed + (i - 1) * step) % 256]

HeaderLens == (0..MaxHeaderLen) \cup {LongLen}
ImageLens  == (0..MaxImageLen) \cup {LongLen}
ChunkSizes == (1..MaxChunk) \cup {BigChunk, DEFAULT_CHUNK_SIZE}

ImageCalls ==
    { [fn |-> "encode_image",
       header |-> Pattern(seed, 1, hl),
       image |-> Pattern(255 - seed, 67, il),
       chunk_size |-> cs,
       translation |-> tr] :
         seed \in {27, 250}, hl \in HeaderLens, il \in ImageLens,
         cs \in ChunkSizes, tr \in BOOLEAN }

SampleBytes == {0, 63, 64, 128, 165, 255}

TranslateInputs ==
    UNION { [1..n -> SampleBytes] : n \in 0..MaxTranslateLen }
    \cup { <<b>> : b \in Byte }
    \cup { <<b, 255 - b, (b * 7) % 256, (b + 128) % 256, b>> : b \in Byte }
    \cup { Pattern(seed, 67, n) : seed \in {0, 200}, n \in 5..(MaxTranslateLen + 5) }

TranslateCalls == { [fn |-> "translate_data", data |-> d] : d \in TranslateInputs }

\* bytes that may follow a length field in a stream
Followers == { <<>>, <<81>>, <<83, 0>>, <<127>>, <<96, 65>>, <<255>> }

LengthCalls ==
    { [fn |-> "encode_length", value |-> v, rest |-> r] :
         v \in 0..MaxLengthValue, r \in Followers }

IntegerInputs ==
    ((-MaxSmallInt)..MaxSmallInt)
    \cup UNION { {m + d, -m + d} : m \in {2^13, 2^20}, d \in (-IntWindow)..IntWindow }
         

IntegerCalls ==
    { [fn |-> "encode_integer", number |-> n, raw |-> r] :
         n \in IntegerInputs, r \in BOOLEAN }

\* numerators num of the argument value = num / XDen
NormalizedInputs ==
    UNION { {c + d : d \in (-NormWindow)..NormWindow} :
               c \in {-XDen, -(XDen \div 2), 0, XDen \div 3, XDen} }

NormalizedCalls == { [fn |-> "encode_normalized", num |-> n] : n \in NormalizedInputs }

(***************************************************************************)
(* Actions: one call of each encoder function                              *)
(***************************************************************************)
EncodeLength ==
    /\ pc = "call" /\ call.fn = "encode_length"
    /\ result' = encode_length(call.value)
    /\ pc' = "return"
    /\ UNCHANGED <<call, convertVars, handlerVars, serverVars, relayVars>>

EncodeInteger ==
    /\ pc = "call" /\ call.fn = "encode_integer"
    /\ result' = encode_integer(call.number, call.raw)
    /\ pc' = "return"
    /\ UNCHANGED <<call, convertVars, handlerVars, serverVars, relayVars>>

EncodeNormalized ==
    /\ pc = "call" /\ call.fn = "encode_normalized"
    /\ IF NormalizedOutOfRange(call.num)
       THEN pc' = "raise" /\ result' = <<>>
       ELSE pc' = "return" /\ result' = encode_normalized(call.num)
    /\ UNCHANGED <<call, convertVars, handlerVars, serverVars, relayVars>>

TranslateData ==
    /\ pc = "call" /\ call.fn = "translate_data"
    /\ result' = translate_data(call.data)
    /\ pc' = "return"
    /\ UNCHANGED <<call, convertVars, handlerVars, serverVars, relayVars>>

EncodeImage ==
    /\ pc = "call" /\ call.fn = "encode_image"
    /\ result' = encode_image(call.header, call.image, call.chunk_size, call.translation)
    /\ pc' = "return"
    /\ UNCHANGED <<call, convertVars, handlerVars, serverVars, relayVars>>

InitPrimitives ==
    /\ call \in LengthCalls \cup IntegerCalls \cup NormalizedCalls
    /\ result = <<>>
    /\ pc = "call"
    /\ ConvertIdle /\ HandlerIdle /\ ServerIdle /\ RelayIdle

NextPrimitives == EncodeLength \/ EncodeInteger \/ EncodeNormalized

SpecPrimitives == InitPrimitives /\ [][NextPrimitives]_vars

InitChunker ==
    /\ call \in ImageCalls \cup TranslateCalls
    /\ result = <<>>
    /\ pc = "call"
    /\ ConvertIdle /\ HandlerIdle /\ ServerIdle /\ RelayIdle

NextChunker == EncodeImage \/ TranslateData

SpecChunker == InitChunker /\ [][NextChunker]_vars

(***************************************************************************)
(* The receiving side, as the protocol describes it                        *)
(***************************************************************************)
RECURSIVE DecodeDigits(_, _, _)
\* consume digit bytes from s[pos] on while the continuation bit 0x20 is
\* set, the first byte lacking it being the last digit; the input ending
\* ends the field too.  value: the number read, used: the bytes consumed.
DecodeDigits(s, pos, acc) ==
    IF pos > Len(s) THEN [value |-> acc, used |-> pos - 1]
    ELSE LET v == acc * 32 + (s[pos] % 32)
         IN  IF BitAnd(s[pos], 32) # 0
             THEN DecodeDigits(s, pos + 1, v)
             ELSE [value |-> v, used |-> pos]

\* a length field at the head of s: the sentinel 0xFF, then the digits
DecodeLength(s) ==
    IF s = <<>> \/ s[1] # 255 THEN [value |-> -1, used |-> 0]
    ELSE DecodeDigits(s, 2, 0)

FramePrefix == <<27, 112, 35, 64>>

\* a frame's length field value, opcode byte and chunk bytes, located by
\* reading the length field that follows the 4-byte prefix
FrameField(f)  == DecodeLength(SubSeq(f, 5, Len(f)))
FrameOpcode(f) == f[4 + FrameField(f).used + 1]
FrameChunk(f)  == SubSeq(f, 4 + FrameField(f).used + 2, Len(f))

\* one step of a reader walking a stream by the length fields alone: the
\* position after the frame that starts at s[pos], 0 when no well-formed
\* frame starts there
ReadFrame(s, pos) ==
    IF Len(s) - pos + 1 < 6 \/ SubSeq(s, pos, pos + 3) # FramePrefix THEN 0
    ELSE LET d == DecodeLength(SubSeq(s, pos + 4, Len(s)))
             n == 4 + d.used + d.value
         IN  IF d.used = 0 \/ d.value < 1 \/ pos + n - 1 > Len(s) THEN 0
             ELSE pos + n

\* where the i-th emitted frame starts in the concatenated stream
FrameStart(frames, i) == 1 + Len(Concat(SubSeq(frames, 1, i - 1)))

IsHeaderFrame(f) == FrameOpcode(f) \in {80, 81}
IsImageFrame(f)  == FrameOpcode(f) \in {82, 83}

Chunks(frames) == Concat([i \in 1..Len(frames) |-> FrameChunk(frames[i])])
Opcodes(frames) == [i \in 1..Len(frames) |-> FrameOpcode(frames[i])]

\* inverse of the 6-bit transform: groups of 4 bytes, a last group of 2 or 3
UntranslateGroup(g) ==
    [i \in 1..(Len(g) - 1) |-> ((g[1] \div 4^(3 - i)) % 4) * 64 + (g[i + 1] % 64)]

Untranslate(t) ==
    Concat([k \in 1..RangeCount(Len(t), 4) |->
               UntranslateGroup(Slice(t, 4 * (k - 1), 4 * k))])

Returned(fn) == pc = "return" /\ call.fn = fn

(***************************************************************************)
(* C1: with translation disabled, the chunk bytes of the header frames of  *)
(* encode_image, concatenated in frame order, are the header, and those of *)
(* the image frames are the image, for every chunk size >= 1 and every     *)
(* buffer length including 0.                                              *)
(***************************************************************************)
C1_RoundTrip ==
    (Returned("encode_image") /\ ~call.translation) =>
        /\ Chunks(SelectSeq(result, IsHeaderFrame)) = call.header
        /\ Chunks(SelectSeq(result, IsImageFrame)) = call.image

C1_Witness ==
    /\ Returned("encode_image") /\ ~call.translation
    /\ Len(call.header) = LongLen /\ Len(call.image) = LongLen
    /\ call.chunk_size = MaxChunk
    /\ Len(result) > 10

(***************************************************************************)
(* C2: every frame of encode_image is 0x1B 0x70 0x23 0x40, a length field, *)
(* an opcode byte and the chunk bytes, the length field holding 1 + the    *)
(* number of chunk bytes emitted; a reader walking the concatenated stream *)
(* by the length fields alone recovers exactly the emitted frames.         *)
(***************************************************************************)
C2_SelfDescribing ==
    Returned("encode_image") =>
        /\ \A i \in 1..Len(result) :
              LET f == result[i]
              IN  /\ Len(f) >= 6
                  /\ SubSeq(f, 1, 4) = FramePrefix
                  /\ f[5] = 255
                  /\ FrameField(f).used >= 2
                  /\ 4 + FrameField(f).used + 1 <= Len(f)
                  /\ FrameOpcode(f) \in {80, 81, 82, 83}
                  /\ FrameField(f).value = 1 + Len(FrameChunk(f))
                  /\ Len(f) = 4 + FrameField(f).used + 1 + Len(FrameChunk(f))
        /\ LET stream == Concat(result)
           IN  \A i \in 1..Len(result) :
                  /\ ReadFrame(stream, FrameStart(result, i)) = FrameStart(result, i + 1)
                  /\ SubSeq(stream, FrameStart(result, i), FrameStart(result, i + 1) - 1)
                        = result[i]

C2_Witness ==
    /\ Returned("encode_image") /\ call.translation
    /\ call.chunk_size = BigChunk
    /\ Len(result) >= 4
    /\ \E i \in 1..Len(result) : FrameField(result[i]).value >= 32

(***************************************************************************)
(* C3: the opcodes of the frames of encode_image read 0x50* 0x51 0x52*     *)
(* 0x53: header frames first, each segment ending in exactly one final     *)
(* frame (also when empty), and a segment that fits in one chunk yields    *)
(* one frame.                                                              *)
(***************************************************************************)
C3_OpcodeShape ==
    Returned("encode_image") =>
        LET ops == Opcodes(result)
            nh  == Len(SelectSeq(result, IsHeaderFrame))
            ni  == Len(SelectSeq(result, IsImageFrame))
        IN  /\ nh >= 1 /\ ni >= 1 /\ nh + ni = Len(result)
            /\ \A i \in 1..(nh - 1) : ops[i] = 80
            /\ ops[nh] = 81
            /\ \A i \in (nh + 1)..(nh + ni - 1) : ops[i] = 82
            /\ ops[nh + ni] = 83
            /\ (Len(call.header) <= call.chunk_size - 1) => nh = 1
            /\ (Len(call.image) <= ImageChunkSize(call.chunk_size, call.translation))
                  => ni = 1

C3_Witness ==
    /\ Returned("encode_image")
    /\ Len(SelectSeq(result, IsHeaderFrame)) >= 3
    /\ Len(SelectSeq(result, IsImageFrame)) >= 3
    /\ call.translation

(***************************************************************************)
(* C4: with translation disabled, every frame of encode_image, header and  *)
(* image alike, carries at most chunk_size - 1 chunk bytes, so that the    *)
(* length field (opcode + chunk) never exceeds chunk_size.                 *)
(***************************************************************************)
C4_ChunkBound ==
    (Returned("encode_image") /\ ~call.translation) =>
        \A i \in 1..Len(result) :
            /\ Len(FrameChunk(result[i])) <= call.chunk_size - 1
            /\ FrameField(result[i]).value <= call.chunk_size

(***************************************************************************)
(* C5: with translation active, the transformed chunk bytes of any image   *)
(* frame of encode_image are never longer than chunk_size bytes.           *)
(***************************************************************************)
C5_TranslatedChunkBound ==
    (Returned("encode_image") /\ call.translation) =>
        \A i \in 1..Len(result) :
            IsImageFrame(result[i]) =>
                Len(FrameChunk(result[i])) <= call.chunk_size

(***************************************************************************)
(* C6 as stated: for every v >= 0, encode_length(v) is 0xFF followed by    *)
(* the base-32 digits of v, most significant first, each tagged 0x40 and   *)
(* all but the last tagged 0x20; the decoder returns v and consumes        *)
(* exactly the field, whatever follows it; encode_length(0) is <<0xFF>>.   *)
(***************************************************************************)
RECURSIVE DigitCount(_)
\* the number of base-32 digits of v (0 for v = 0)
DigitCount(v) == IF v = 0 THEN 0 ELSE 1 + DigitCount(v \div 32)

LengthFieldShape(field, v) ==
    LET k == DigitCount(v)
    IN  /\ Len(field) = k + 1
        /\ field[1] = 255
        /\ \A i \in 1..k :
              field[i + 1] = 64 + ((v \div 32^(k - i)) % 32) + (IF i < k THEN 32 ELSE 0)

C6_LengthRoundTrip ==
    Returned("encode_length") =>
        /\ LengthFieldShape(result, call.value)
        /\ DecodeLength(result \o call.rest)
              = [value |-> call.value, used |-> Len(result)]
        /\ call.value = 0 => result = <<255>>

(***************************************************************************)
(* C6 amended: the shape holds for every v >= 0 and encode_length(0) is    *)
(* <<0xFF>>; the decoder returns v and consumes exactly the field for      *)
(* every v >= 1 whatever follows, and for v = 0 only when nothing follows: *)
(* the field of 0 has no digit, and a byte that follows it is consumed as  *)
(* a digit.                                                                *)
(***************************************************************************)
C6_LengthRoundTripPositive ==
    Returned("encode_length") =>
        /\ LengthFieldShape(result, call.value)
        /\ (call.value >= 1 \/ call.rest = <<>>) =>
              DecodeLength(result \o call.rest)
                 = [value |-> call.value, used |-> Len(result)]
        /\ call.value = 0 => result = <<255>>
        /\ (call.value = 0 /\ call.rest # <<>>) =>
              DecodeLength(result \o call.rest).used > Len(result)

C6_Witness ==
    /\ Returned("encode_length")
    /\ call.value >= 1024
    /\ call.rest = <<127>>
    /\ Len(result) = 4

(***************************************************************************)
(* C7: encode_integer(n) is 0x40, a count byte k, then k bytes <= 0x7F     *)
(* holding n in two's complement, big-endian in 7-bit groups, k being the  *)
(* smallest k >= 1 with -2^(7k-1) <= n < 2^(7k-1); decoding the groups as  *)
(* a 7k-bit two's-complement number gives n; raw mode emits the k groups   *)
(* alone.                                                                  *)
(***************************************************************************)
RECURSIVE GroupsValue(_)
\* the unsigned value of big-endian 7-bit groups
GroupsValue(g) ==
    IF g = <<>> THEN 0 ELSE GroupsValue(SubSeq(g, 1, Len(g) - 1)) * 128 + g[Len(g)]

DecodeGroups(g) ==
    LET u == GroupsValue(g)
    IN  IF u >= 2^(7 * Len(g) - 1) THEN u - 2^(7 * Len(g)) ELSE u

FitsGroups(n, k) == -(2^(7 * k - 1)) <= n /\ n < 2^(7 * k - 1)

C7_IntegerRoundTrip ==
    Returned("encode_integer") =>
        LET groups == IF call.raw THEN result ELSE SubSeq(result, 3, Len(result))
            k      == Len(groups)
        IN  /\ ~call.raw => (Len(result) >= 3 /\ result[1] = 64 /\ result[2] = k)
            /\ k >= 1
            /\ \A i \in 1..k : groups[i] \in 0..127
            /\ FitsGroups(call.number, k)
            /\ k > 1 => ~FitsGroups(call.number, k - 1)
            /\ DecodeGroups(groups) = call.number

C7_Witness ==
    /\ Returned("encode_integer")
    /\ call.number < -(2^13)
    /\ ~call.raw
    /\ result[2] = 3

(***************************************************************************)
(* C8: for x in [-1, 1] encode_normalized(x) is 0x42, 4, then four bytes   *)
(* <= 0x7F forming u = round(x * 2^26), plus 2^28 - 2^26 when negative;    *)
(* the ranges of u for non-negative and negative values do not overlap and *)
(* u decodes to within 2^-26 of x; outside [-1, 1] the encoder raises and  *)
(* emits nothing.  (x = call.num / XDen.)                                  *)
(***************************************************************************)
DecodeNormalized(u) == IF u <= 2^26 THEN u ELSE u - (2^28 - 2^26)

Abs(a) == IF a < 0 THEN -a ELSE a

C8_Normalized ==
    (call.fn = "encode_normalized" /\ pc # "call") =>
        IF -XDen <= call.num /\ call.num <= XDen
        THEN /\ pc = "return"
             /\ Len(result) = 6 /\ result[1] = 66 /\ result[2] = 4
             /\ \A i \in 3..6 : result[i] \in 0..127
             /\ LET u == GroupsValue(SubSeq(result, 3, 6))
                    r == DecodeNormalized(u)
                IN  \* r is a nearest integer to x * 2^26 = num / 2
                    /\ Abs(2 * r - call.num) <= 1
                    /\ (call.num >= 0) => (u = r /\ 0 <= u /\ u <= 2^26)
                    /\ (call.num < -1) =>
                          (u = r + 2^28 - 2^26 /\ 2^27 <= u /\ u < 3 * 2^26)
                    \* within 2^-26 of x, in units of 1 / XDen
                    /\ Abs(2 * r - call.num) <= 2
        ELSE pc = "raise" /\ result = <<>>

C8_Witness ==
    /\ call.fn = "encode_normalized" /\ pc = "return"
    /\ call.num = -XDen
    /\ GroupsValue(SubSeq(result, 3, 6)) = 2^27

(***************************************************************************)
(* C9: translate_data is reversible for every length: each group of up to  *)
(* 3 bytes becomes an escape byte 0x40 | top2(b0)<<4 | top2(b1)<<2 |       *)
(* top2(b2) and one byte 0x40 | low6(b) per byte present, the bits of      *)
(* absent bytes being zero; the output is n + ceil(n/3) bytes long and the *)
(* inverse transform gives the data back.                                  *)
(***************************************************************************)
Top2At(data, j) == IF j <= Len(data) THEN data[j] \div 64 ELSE 0

C9_TranslateReversible ==
    Returned("translate_data") =>
        LET n == Len(call.data)
        IN  /\ Len(result) = n + RangeCount(n, 3)
            /\ \A g \in 0..(RangeCount(n, 3) - 1) :
                  /\ result[4 * g + 1] = 64 + 16 * Top2At(call.data, 3 * g + 1)
                                            + 4 * Top2At(call.data, 3 * g + 2)
                                            + Top2At(call.data, 3 * g + 3)
                  /\ \A j \in 1..3 :
                        3 * g + j <= n =>
                           result[4 * g + 1 + j] = 64 + (call.data[3 * g + j] % 64)
            /\ Untranslate(result) = call.data

C9_Witness ==
    /\ Returned("translate_data")
    /\ Len(call.data) = 5
    /\ call.data[4] >= 192 /\ call.data[5] \in 64..127
    /\ Len(result) = 7

(***************************************************************************)
(* C10: every byte translate_data outputs lies in 0x40..0x7F, for every    *)
(* input byte value; hence with translation active every chunk byte of     *)
(* every image frame of encode_image lies in 0x40..0x7F.                   *)
(***************************************************************************)
SixBitSafe(bytes) == \A i \in 1..Len(bytes) : bytes[i] \in 64..127

C10_SixBitSafe ==
    /\ Returned("translate_data") => SixBitSafe(result)
    /\ (Returned("encode_image") /\ call.translation) =>
          \A i \in 1..Len(result) :
              IsImageFrame(result[i]) => SixBitSafe(FrameChunk(result[i]))

C10_Witness ==
    /\ Returned("encode_image") /\ call.translation
    /\ Len(call.image) = LongLen
    /\ \E i \in 1..Len(call.image) : call.image[i] >= 192
    /\ Len(Chunks(SelectSeq(result, IsImageFrame))) > LongLen

(***************************************************************************)
(* encode_boolean, encode_header                                           *)
(*                                                                         *)
(* encode_header passes encode_normalized the floats x/320, width/320,     *)
(* and (h/240)*0.75 for a height h.  Each is the rational p/q below up to  *)
(* float rounding, and p/q * 2^26 is never closer than 0.2 to a tie (it is *)
(* a multiple of 0.2), so round() of the float is round() of the rational. *)
(***************************************************************************)
SCREEN_WIDTH == 320
SCREEN_HEIGHT == 240

RECURSIVE GCD(_, _)
GCD(a, b) == IF b = 0 THEN a ELSE GCD(b, a % b)

\* not (-1 <= p/q <= 1), q > 0
RatioOutOfRange(p, q) == ~(-q <= p /\ p <= q)

\* encode_normalized(p / q): round(p/q * 2^26) computed on the reduced
\* fraction
encode_normalized_ratio(p, q) ==
    LET scale == Shl(1, 7 * NBYTES - 2)
        g     == GCD(scale, q)
        v     == NormalizedBias(PyRound(p * (scale \div g), q \div g))
    IN  <<66, NBYTES>>
        \o [j \in 1..NBYTES |-> BitAnd(Shr(v, 7 * (NBYTES - j)), 127)]

encode_boolean(v) == <<69, 1, IF v THEN 1 ELSE 0>>

RTD     == <<32, 48>>
PDA_LOC == <<33, 50>>
PDA_PAS == <<33, 51>>
PDA_PPL == <<33, 52>>
PDA_CPA == <<33, 53>>
ETM     == <<36, 49>>
TME     == <<37, 48>>

\* the arguments of the encode_normalized calls of encode_header, as <<p, q>>
HeaderFractions(x, y, width, height) ==
    << <<x, SCREEN_WIDTH>>,
       <<(SCREEN_HEIGHT - height - y) * 3, SCREEN_HEIGHT * 4>>,
       <<width, SCREEN_WIDTH>>,
       <<height * 3, SCREEN_HEIGHT * 4>>,
       <<0, 1>> >>

\* one of the encode_normalized calls raises ValueError
HeaderRaises(x, y, width, height) ==
    \E i \in 1..5 :
        LET f == HeaderFractions(x, y, width, height)[i]
        IN  RatioOutOfRange(f[1], f[2])

\* as encode_header, with the clear directive emitted before the geometry
\* directive
encode_header_clear_early(x, y, width, height, clear, translation, reset, quantization) ==
    LET f == HeaderFractions(x, y, width, height)
        N(i) == encode_normalized_ratio(f[i][1], f[i][2])
    IN  (IF reset THEN RTD \o encode_boolean(TRUE) ELSE <<>>)
        \o PDA_LOC \o N(1) \o N(2)
        \o PDA_PAS \o N(3) \o N(4)
        \o (IF clear THEN PDA_CPA \o encode_boolean(clear) ELSE <<>>)
        \o PDA_PPL \o encode_integer(0, FALSE) \o encode_integer(0, FALSE)
                   \o N(5) \o N(4)
        \o (IF quantization
            THEN ETM \o <<68, 1, 1>> \o encode_integer(127, FALSE) \o <<68, 1, 3>>
            ELSE <<>>)
        \o (IF translation THEN TME \o <<68, 1, 2>> ELSE <<>>)

encode_header(x, y, width, height, clear, translation, reset, quantization) ==
    LET f == HeaderFractions(x, y, width, height)
        N(i) == encode_normalized_ratio(f[i][1], f[i][2])
    IN  (IF reset THEN RTD \o encode_boolean(TRUE) ELSE <<>>)
        \o PDA_LOC \o N(1) \o N(2)
        \o PDA_PAS \o N(3) \o N(4)
        \o PDA_PPL \o encode_integer(0, FALSE) \o encode_integer(0, FALSE)
                   \o N(5) \o N(4)
        \o (IF clear THEN PDA_CPA \o encode_boolean(clear) ELSE <<>>)
        \o (IF quantization
            THEN ETM \o <<68, 1, 1>> \o encode_integer(127, FALSE) \o <<68, 1, 3>>
            ELSE <<>>)
        \o (IF translation THEN TME \o <<68, 1, 2>> ELSE <<>>)

HeaderCalls ==
    { [fn |-> "encode_header", x |-> x, y |-> y, width |-> w, height |-> h,
       clear |-> c, translation |-> t, reset |-> r, quantization |-> q] :
         x \in {0, 8, 160, 400}, y \in {0, 10, 120},
         w \in {8, 160, 320}, h \in {10, 120, 240},
         c \in BOOLEAN, t \in BOOLEAN, r \in BOOLEAN, q \in BOOLEAN }

EncodeHeader ==
    /\ pc = "call" /\ call.fn = "encode_header"
    /\ IF HeaderRaises(call.x, call.y, call.width, call.height)
       THEN pc' = "raise" /\ result' = <<>>
       ELSE /\ pc' = "return"
            /\ result' = encode_header(call.x, call.y, call.width, call.height,
                                       call.clear, call.translation, call.reset,
                                       call.quantization)
    /\ UNCHANGED <<call, convertVars, handlerVars, serverVars, relayVars>>

(***************************************************************************)
(* resize_image                                                            *)
(*                                                                         *)
(* The source image is its size <<width, height>>.  ratio is the rational  *)
(* min(320/width, 240/height, 1) as <<numerator, denominator>>.  round()   *)
(* of the float product is the nearest integer of the rational product;    *)
(* when the rational product lies exactly halfway the float product may    *)
(* fall on either side (e.g. 11 x 352 gives 7 for 7.5), so both            *)
(* neighbours are outcomes.                                                *)
(***************************************************************************)
MaxSrcDim == 24

\* as ResizeRatio, without the height term: min(320/width, 1)
ResizeRatioWidthOnly(width, height) ==
    IF SCREEN_WIDTH < width THEN <<SCREEN_WIDTH, width>> ELSE <<1, 1>>

\* min(SCREEN_WIDTH / im.width, SCREEN_HEIGHT / im.height, 1)
ResizeRatio(width, height) ==
    LET byWidth == SCREEN_WIDTH * height <= SCREEN_HEIGHT * width
    IN  IF byWidth
        THEN (IF SCREEN_WIDTH < width THEN <<SCREEN_WIDTH, width>> ELSE <<1, 1>>)
        ELSE (IF SCREEN_HEIGHT < height THEN <<SCREEN_HEIGHT, height>> ELSE <<1, 1>>)

\* the values round(p / q) can take, q > 0
RoundOutcomes(p, q) ==
    IF 2 * (p % q) = q THEN {p \div q, (p \div q) + 1} ELSE {PyRound(p, q)}

\* ((v + step//2) // step) * step, written ((w + 4)//8)*8 and ((h + 5)//10)*10
GridRound(v, step) == ((v + (step \div 2)) \div step) * step

GRID_WIDTH == 8
GRID_HEIGHT == 10

\* the sizes (w, h) resize_image can compute for a source size
ResizedSizes(width, height) ==
    LET r == ResizeRatio(width, height)
    IN  { <<GridRound(w0, GRID_WIDTH), GridRound(h0, GRID_HEIGHT)>> :
             w0 \in RoundOutcomes(width * r[1], r[2]),
             h0 \in RoundOutcomes(height * r[1], r[2]) }

SrcWidths  == (1..MaxSrcDim) \cup {99, 100, 320, 321, 352, 640, 641}
SrcHeights == (1..MaxSrcDim) \cup {99, 100, 240, 241, 352, 480, 481}

ResizeCalls ==
    { [fn |-> "resize_image", width |-> w, height |-> h] :
         w \in SrcWidths, h \in SrcHeights }

\* result.same: the source image object is returned (line 159); otherwise
\* im.resize((w, h)) is called, which rejects an empty size
ResizeImage ==
    /\ pc = "call" /\ call.fn = "resize_image"
    /\ \E size \in ResizedSizes(call.width, call.height) :
          /\ result' = [width |-> size[1], height |-> size[2],
                        same |-> (call.width = size[1] /\ call.height = size[2])]
          /\ pc' = IF size[1] = 0 \/ size[2] = 0 THEN "raise" ELSE "return"
    /\ UNCHANGED <<call, convertVars, handlerVars, serverVars, relayVars>>

(***************************************************************************)
(* iter_jpeg_sections, trim_jpeg, has_qtables                              *)
(***************************************************************************)
\* data[i] for a 0-based index i, -1 standing for IndexError
At(data, i) == IF i >= 0 /\ i < Len(data) THEN data[i + 1] ELSE -1

RECURSIVE JpegWalk(_, _, _)
\* the while loop and the final test of iter_jpeg_sections from offset pos:
\* the (begin, end) pairs yielded, and whether the generator then raises
JpegWalk(data, pos, acc) ==
    IF At(data, pos) = -1 THEN [sections |-> acc, raises |-> TRUE]
    ELSE IF At(data, pos) = 255 /\ At(data, pos + 1) = -1
         THEN [sections |-> acc, raises |-> TRUE]
    ELSE IF At(data, pos) = 255 /\ At(data, pos + 1) # 218
         THEN IF At(data, pos + 2) = -1 \/ At(data, pos + 3) = -1
              THEN [sections |-> acc, raises |-> TRUE]
              ELSE LET length == BitOr(Shl(At(data, pos + 2), 8), At(data, pos + 3))
                   IN  JpegWalk(data, pos + length + 2,
                                Append(acc, <<pos, pos + length + 2>>))
    ELSE IF Slice(data, pos, pos + 2) # <<255, 218>>
            \/ Slice(data, Len(data) - 2, Len(data)) # <<255, 217>>
         THEN [sections |-> acc, raises |-> TRUE]
         ELSE [sections |-> Append(acc, <<pos, Len(data)>>), raises |-> FALSE]

iter_jpeg_sections(data) ==
    IF Slice(data, 0, 2) # <<255, 216>>
    THEN [sections |-> <<>>, raises |-> TRUE]
    ELSE JpegWalk(data, 2, <<>>)

\* as TrimKeeps, without the frame header FFC0
TrimKeepsNoFrameHeader(marker) == marker \in {<<255, 218>>, <<255, 219>>}

\* data[b:b+2] in (FFDA, FFC0, FFDB)
TrimKeeps(marker) == marker \in {<<255, 218>>, <<255, 192>>, <<255, 219>>}

\* [raises, value]: the bytes returned, unless the generator raises
trim_jpeg(data) ==
    LET it   == iter_jpeg_sections(data)
        kept == SelectSeq(it.sections,
                          LAMBDA se : TrimKeeps(Slice(data, se[1], se[1] + 2)))
    IN  [raises |-> it.raises,
         value  |-> IF it.raises THEN <<>>
                    ELSE <<255, 216>>
                         \o Concat([i \in 1..Len(kept) |->
                                       Slice(data, kept[i][1], kept[i][2])])]

\* [raises, value]: any() stops at the first FFDB section, before the
\* generator can raise on what follows
has_qtables(data) ==
    LET it    == iter_jpeg_sections(data)
        found == \E i \in 1..Len(it.sections) :
                    Slice(data, it.sections[i][1], it.sections[i][1] + 2) = <<255, 219>>
    IN  [raises |-> ~found /\ it.raises, value |-> found]

MaxSegments == 3

\* a marker segment: FF, marker, 2-byte length counting itself, payload
Segment(marker, payload) ==
    <<255, marker, (Len(payload) + 2) \div 256, (Len(payload) + 2) % 256>> \o payload

SampleSegments ==
    { Segment(219, <<0, 16>>), Segment(219, <<1, 255, 218>>), Segment(219, <<>>),
      Segment(192, <<8, 0>>), Segment(224, <<74>>), Segment(196, <<255, 219, 0>>) }

SampleScans ==
    { <<255, 218, 255, 217>>,
      <<255, 218, 0, 2, 7, 255, 219, 0, 2, 255, 217>>,
      <<255, 218, 0, 255, 0, 255, 192, 255, 217>> }

SegmentLists == UNION { [1..n -> SampleSegments] : n \in 0..MaxSegments }

JpegStream(segments, scan) == <<255, 216>> \o Concat(segments) \o scan

MalformedJpegs ==
    { <<>>, <<255, 216>>, <<0, 1, 2, 3>>, <<255, 216, 255>>,
      <<255, 216, 255, 219, 0>>,
      <<255, 216, 255, 219, 0, 2, 255, 218, 1, 2>>,
      <<255, 216, 255, 224, 0, 9, 1, 255, 218, 255, 217>>,
      <<255, 216, 255, 219, 0, 2, 7, 7>> }

JpegInputs ==
    { [data |-> JpegStream(segs, scan), segments |-> segs, scan |-> scan,
       wellformed |-> TRUE] : segs \in SegmentLists, scan \in SampleScans }
    \cup { [data |-> d, segments |-> <<>>, scan |-> <<>>, wellformed |-> FALSE] :
              d \in MalformedJpegs }

JpegCalls ==
    { [fn |-> f, data |-> j.data, segments |-> j.segments, scan |-> j.scan,
       wellformed |-> j.wellformed] :
         f \in {"trim_jpeg", "has_qtables"}, j \in JpegInputs }

TrimJpeg ==
    /\ pc = "call" /\ call.fn = "trim_jpeg"
    /\ LET r == trim_jpeg(call.data)
       IN  /\ pc' = IF r.raises THEN "raise" ELSE "return"
           /\ result' = r.value
    /\ UNCHANGED <<call, convertVars, handlerVars, serverVars, relayVars>>

HasQtables ==
    /\ pc = "call" /\ call.fn = "has_qtables"
    /\ LET r == has_qtables(call.data)
       IN  /\ pc' = IF r.raises THEN "raise" ELSE "return"
           /\ result' = r.value
    /\ UNCHANGED <<call, convertVars, handlerVars, serverVars, relayVars>>

InitImage ==
    /\ call \in HeaderCalls \cup ResizeCalls \cup JpegCalls
    /\ result = <<>>
    /\ pc = "call"
    /\ ConvertIdle /\ HandlerIdle /\ ServerIdle /\ RelayIdle

NextImage == EncodeHeader \/ ResizeImage \/ TrimJpeg \/ HasQtables

SpecImage == InitImage /\ [][NextImage]_vars

(***************************************************************************)
(* Reading a header back: directives and their encoded values              *)
(***************************************************************************)
RECURSIVE ValuesEnd(_, _)
\* the index after the run of encoded values (tag byte >= 0x40, count byte,
\* count payload bytes) that starts at h[pos]
ValuesEnd(h, pos) ==
    IF pos + 1 <= Len(h) /\ h[pos] >= 64
    THEN ValuesEnd(h, pos + 2 + h[pos + 1])
    ELSE pos

RECURSIVE ParseDirectives(_, _)
\* the directives of h from h[pos] on, each a 2-byte opcode (first byte in
\* 0x20..0x25) with its values; <<-1>> marks a malformed rest
ParseDirectives(h, pos) ==
    IF pos > Len(h) THEN <<>>
    ELSE IF pos + 1 > Len(h) \/ h[pos] \notin 32..37 THEN << <<-1>> >>
    ELSE LET e == ValuesEnd(h, pos + 2)
         IN  IF e > Len(h) + 1 THEN << <<-1>> >>
             ELSE <<SubSeq(h, pos, e - 1)>> \o ParseDirectives(h, e)

DirectiveIds(dirs) == [i \in 1..Len(dirs) |-> SubSeq(dirs[i], 1, 2)]

HeaderOf(c) ==
    encode_header(c.x, c.y, c.width, c.height,
                  c.clear, c.translation, c.reset, c.quantization)

\* the Normalized value that occupies d[from .. from + 5], as an integer
\* number of 2^-26 units
NormalizedAt(d, from) == DecodeNormalized(GroupsValue(SubSeq(d, from + 2, from + 5)))

\* r / 2^26 is p / 320 rounded to the nearest 2^-26
NearFraction(r, p) == Abs(10 * r - p * 2^21) <= 5

FlagDirective ==
    [reset |-> RTD, clear |-> PDA_CPA, quantization |-> ETM, translation |-> TME]

(***************************************************************************)
(* C11: for every combination of reset, clear, quantization, translation   *)
(* and every geometry, encode_header is, in this order: reset (iff reset), *)
(* position, size, geometry, clear (iff clear), quantization (iff          *)
(* quantization), translation (iff translation); switching one flag adds   *)
(* or removes that flag's directive only; the default flags give reset,    *)
(* position, size, geometry, clear.                                        *)
(***************************************************************************)
C11_HeaderOrder ==
    Returned("encode_header") =>
        LET dirs == ParseDirectives(result, 1)
            base == IF call.reset THEN 1 ELSE 0
        IN  /\ Concat(dirs) = result
            /\ DirectiveIds(dirs) =
                  (IF call.reset THEN <<RTD>> ELSE <<>>)
                  \o <<PDA_LOC, PDA_PAS, PDA_PPL>>
                  \o (IF call.clear THEN <<PDA_CPA>> ELSE <<>>)
                  \o (IF call.quantization THEN <<ETM>> ELSE <<>>)
                  \o (IF call.translation THEN <<TME>> ELSE <<>>)
            /\ call.reset => dirs[1] = <<32, 48, 69, 1, 1>>
            /\ LET loc == dirs[base + 1]
                   pas == dirs[base + 2]
                   ppl == dirs[base + 3]
               IN  /\ Len(loc) = 14 /\ Len(pas) = 14 /\ Len(ppl) = 20
                   /\ NearFraction(NormalizedAt(loc, 3), call.x)
                   /\ NearFraction(NormalizedAt(loc, 9),
                                   SCREEN_HEIGHT - call.height - call.y)
                   /\ NearFraction(NormalizedAt(pas, 3), call.width)
                   /\ NearFraction(NormalizedAt(pas, 9), call.height)
                   /\ SubSeq(ppl, 3, 8) = <<64, 1, 0, 64, 1, 0>>
                   /\ NormalizedAt(ppl, 9) = 0
                   /\ NearFraction(NormalizedAt(ppl, 15), call.height)
            /\ call.clear => dirs[base + 4] = <<33, 53, 69, 1, 1>>
            /\ call.quantization =>
                  dirs[base + 4 + (IF call.clear THEN 1 ELSE 0)]
                     = <<36, 49, 68, 1, 1, 64, 2, 0, 127, 68, 1, 3>>
            /\ call.translation => dirs[Len(dirs)] = <<37, 48, 68, 1, 2>>
            /\ \A flag \in DOMAIN FlagDirective :
                  LET on  == ParseDirectives(HeaderOf([call EXCEPT ![flag] = TRUE]), 1)
                      off == ParseDirectives(HeaderOf([call EXCEPT ![flag] = FALSE]), 1)
                  IN  /\ Len(on) = Len(off) + 1
                      /\ SelectSeq(on, LAMBDA d : SubSeq(d, 1, 2) # FlagDirective[flag])
                            = off
            /\ (call.reset /\ call.clear /\ ~call.quantization /\ ~call.translation)
                  => DirectiveIds(dirs) = <<RTD, PDA_LOC, PDA_PAS, PDA_PPL, PDA_CPA>>

C11_Witness ==
    /\ Returned("encode_header")
    /\ call.x = 8 /\ call.y = 10 /\ call.width = 160 /\ call.height = 120
    /\ ~call.reset /\ ~call.clear /\ call.quantization /\ call.translation
    /\ Len(ParseDirectives(result, 1)) = 5

(***************************************************************************)
(* C12: for every source size the dimensions resize_image computes are     *)
(* width <= 320, height <= 240, width divisible by 8, height divisible by  *)
(* 10; when they equal the source dimensions the source image is returned  *)
(* without resampling (320x240 stays, 640x480 becomes 320x240).            *)
(***************************************************************************)
C12_ResizeGrid ==
    (call.fn = "resize_image" /\ pc # "call") =>
        /\ result.width <= SCREEN_WIDTH /\ result.height <= SCREEN_HEIGHT
        /\ result.width % 8 = 0 /\ result.height % 10 = 0
        /\ result.width >= 0 /\ result.height >= 0
        /\ (result.width = call.width /\ result.height = call.height) => result.same
        /\ (call.width = 320 /\ call.height = 240) =>
              (result.same /\ result.width = 320 /\ result.height = 240)
        /\ (call.width = 640 /\ call.height = 480) =>
              (result.width = 320 /\ result.height = 240 /\ ~result.same)

C12_Witness ==
    /\ call.fn = "resize_image" /\ pc = "return"
    /\ call.width = 640 /\ call.height = 480
    /\ result = [width |-> 320, height |-> 240, same |-> FALSE]

(***************************************************************************)
(* C13: resize_image rounds the scaled dimensions up to the grid: the      *)
(* output width is the smallest multiple of 8 >= the scaled width, the     *)
(* output height the smallest multiple of 10 >= the scaled height (scaled  *)
(* = source * min(320/width, 240/height, 1)); the output is never smaller  *)
(* than the scaled image and never has a zero dimension.                   *)
(***************************************************************************)
C13_ResizeRoundsUp ==
    (call.fn = "resize_image" /\ pc # "call") =>
        LET r == ResizeRatio(call.width, call.height)
        IN  /\ result.width * r[2] >= call.width * r[1]
            /\ (result.width - 8) * r[2] < call.width * r[1]
            /\ result.height * r[2] >= call.height * r[1]
            /\ (result.height - 10) * r[2] < call.height * r[1]
            /\ result.width > 0 /\ result.height > 0

(***************************************************************************)
(* C17: for a well-formed JPEG stream (SOI, length-prefixed marker         *)
(* segments, SOS through EOI) trim_jpeg returns SOI, then the FFDB and     *)
(* FFC0 segments byte-identical in their original order, then the          *)
(* unchanged SOS-through-EOI span, every other segment being removed;      *)
(* has_qtables answers the same on the trimmed stream as on the input, and *)
(* trimming a trimmed stream changes nothing.                              *)
(***************************************************************************)
IsKeptSegment(seg) == seg[2] \in {219, 192}

C17_TrimJpeg ==
    (call.fn = "trim_jpeg" /\ pc # "call" /\ call.wellformed) =>
        /\ pc = "return"
        /\ result = <<255, 216>>
                    \o Concat(SelectSeq(call.segments, IsKeptSegment))
                    \o call.scan
        /\ has_qtables(result) = has_qtables(call.data)
        /\ ~has_qtables(call.data).raises
        /\ has_qtables(call.data).value
              = (\E i \in 1..Len(call.segments) : call.segments[i][2] = 219)
        /\ trim_jpeg(result) = [raises |-> FALSE, value |-> result]

C17_Witness ==
    /\ Returned("trim_jpeg") /\ call.wellformed
    /\ Len(call.segments) = 3
    /\ call.segments[1][2] = 196 /\ call.segments[2][2] = 192
    /\ call.segments[3] = Segment(219, <<1, 255, 218>>)
    /\ Len(call.scan) > 4
    /\ Len(result) < Len(call.data)

(***************************************************************************)
(* convert_images                                                          *)
(***************************************************************************)
\* bound: the number of entries of the input folder
MaxBatch == 3

\* The entries an input folder can hold are Stem + Suffix, numbered in the
\* order sorted() gives the paths: "a.JPG" < "a.png" < "a.txt" < "b.JPG" < ...
\* An entry is its number in that order.
Stems    == <<"a", "b", "c">>
Suffixes == <<".JPG", ".png", ".txt">>

Paths == 1..(Len(Stems) * Len(Suffixes))

Stem(p)   == Stems[((p - 1) \div Len(Suffixes)) + 1]
Suffix(p) == Suffixes[((p - 1) % Len(Suffixes)) + 1]

\* str.lower() on the suffixes above
Lower(s) == IF s = ".JPG" THEN ".jpg" ELSE s

IMAGE_SUFFIXES == {".jpg", ".jpeg", ".png", ".bmp", ".webp", ".tif", ".tiff"}

IsImage(p) == Lower(Suffix(p)) \in IMAGE_SUFFIXES

RECURSIVE SortedPaths(_)
\* sorted(S)
SortedPaths(S) ==
    IF S = {} THEN <<>>
    ELSE LET m == CHOOSE x \in S : \A y \in S : x <= y
         IN  <<m>> \o SortedPaths(S \ {m})

\* the size of source image p: 640x480, 160x120 or 320x240 by stem
SourceSize(p) ==
    IF Stem(p) = "a" THEN <<640, 480>>
    ELSE IF Stem(p) = "b" THEN <<160, 120>>
    ELSE <<320, 240>>

\* export_image(im, quality=78): the JPEG of source p with its APP0 segment
\* trimmed away; the tables and the scan depend on p
export_image(p) ==
    trim_jpeg(JpegStream(<<Segment(224, <<74, 70, 73, 70, 0>>),
                           Segment(219, <<0, p, 16, 11>>),
                           Segment(192, <<8, 0, 240, 1, 64, 1>>)>>,
                         <<255, 218, 0, 2>> \o Pattern(p, 7, 4 + p) \o <<255, 217>>)).value

\* the chunks convert_images writes for each source
ChunksOfPath ==
    [p \in Paths |->
        LET size   == CHOOSE sz \in ResizedSizes(SourceSize(p)[1], SourceSize(p)[2]) : TRUE
            jpeg   == export_image(p)
            header == encode_header(0, 0, size[1], size[2], TRUE, FALSE, TRUE,
                                    has_qtables(jpeg).value)
        IN  encode_image(header, jpeg, DEFAULT_CHUNK_SIZE, FALSE)]

VdtChunks(p) == ChunksOfPath[p]

\* the complete artifact of each source: its chunks in order
BytesOfPath == [p \in Paths |-> Concat(ChunksOfPath[p])]

VdtBytes(p) == BytesOfPath[p]

\* a file of the output folder: `writer` is the source image whose turn
\* opened it (0: a file left by an earlier run)
NoFile == [present |-> FALSE, writer |-> 0, data |-> <<>>]
OldFile == [present |-> TRUE, writer |-> 0, data |-> <<27, 64>>]

LogRecord(kind, p, bytes) == [kind |-> kind, name |-> p, bytes |-> bytes]

\* the paths one loop iteration can take: no exception, or an exception
\* before the output file exists ("load": Image.open, resize_image,
\* export_image, encode_*, or open(outp, "wb") itself), in the k+1-th
\* f.write ("write", k chunks written), or in outp.read_bytes() ("preview")
TurnPaths(p, preview) ==
    { [at |-> a, written |-> 0] : a \in {"none", "load"} }
    \cup { [at |-> "write", written |-> k] : k \in 0..(Len(VdtChunks(p)) - 1) }
    \cup (IF preview THEN { [at |-> "preview", written |-> 0] } ELSE {})

\* the output file of p after its turn, from what it was before
TurnFile(p, o, before) ==
    IF o.at = "load" THEN before
    ELSE [present |-> TRUE, writer |-> p,
          data |-> IF o.at = "write" THEN Concat(SubSeq(VdtChunks(p), 1, o.written))
                   ELSE VdtBytes(p)]

\* as TurnLog, but a failed write is not logged
TurnLogSilentWrite(p, o, preview) ==
    (IF o.at \in {"none", "preview"} THEN <<LogRecord("converted", p, <<>>)>> ELSE <<>>)
    \o (IF o.at = "none" /\ preview
        THEN <<LogRecord("preview", p, Slice(VdtBytes(p), 0, 64))>>
        ELSE <<>>)
    \o (IF o.at \in {"load", "preview"} THEN <<LogRecord("error", p, <<>>)>> ELSE <<>>)

\* the records one loop iteration logs
TurnLog(p, o, preview) ==
    (IF o.at \in {"none", "preview"} THEN <<LogRecord("converted", p, <<>>)>> ELSE <<>>)
    \o (IF o.at = "none" /\ preview
        THEN <<LogRecord("preview", p, Slice(VdtBytes(p), 0, 64))>>
        ELSE <<>>)
    \o (IF o.at # "none" THEN <<LogRecord("error", p, <<>>)>> ELSE <<>>)

\* the entry of convert_images up to the loop
ConvertStart ==
    /\ cpc = "start"
    /\ IF ~folder.exists
       THEN /\ log' = <<LogRecord("missing", 0, <<>>)>>
            /\ cpc' = "returned"
            /\ UNCHANGED imgs
       ELSE LET found == SortedPaths({p \in folder.names : IsImage(p)})
            IN  /\ imgs' = found
                /\ IF found = <<>>
                   THEN log' = <<LogRecord("empty", 0, <<>>)>> /\ cpc' = "returned"
                   ELSE log' = <<LogRecord("start", Len(found), <<>>)>> /\ cpc' = "loop"
    /\ UNCHANGED <<folder, turn, outcomes, files>>
    /\ UNCHANGED <<pureVars, handlerVars, serverVars, relayVars>>

\* one iteration of `for p in imgs`
ConvertImage ==
    /\ cpc = "loop" /\ turn < Len(imgs)
    /\ LET p == imgs[turn + 1]
       IN  \E o \in TurnPaths(p, folder.preview) :
              /\ files' = [files EXCEPT ![Stem(p)] = TurnFile(p, o, @)]
              /\ log' = log \o TurnLog(p, o, folder.preview)
              /\ outcomes' = Append(outcomes, o)
    /\ turn' = turn + 1
    /\ UNCHANGED <<folder, imgs, cpc>>
    /\ UNCHANGED <<pureVars, handlerVars, serverVars, relayVars>>

\* the end of the loop
ConvertFinish ==
    /\ cpc = "loop" /\ turn = Len(imgs)
    /\ log' = Append(log, LogRecord("finished", 0, <<>>))
    /\ cpc' = "returned"
    /\ UNCHANGED <<folder, imgs, turn, outcomes, files>>
    /\ UNCHANGED <<pureVars, handlerVars, serverVars, relayVars>>

StemSet == { Stems[i] : i \in 1..Len(Stems) }

InitConvert ==
    /\ folder \in [exists : BOOLEAN,
                   names : { S \in SUBSET Paths : Cardinality(S) <= MaxBatch },
                   preview : BOOLEAN]
    /\ folder.exists \/ folder.names = {}
    /\ imgs = <<>> /\ turn = 0 /\ outcomes = <<>> /\ log = <<>>
    /\ files \in { [s \in StemSet |-> NoFile], [s \in StemSet |-> OldFile] }
    /\ cpc = "start"
    /\ PureIdle /\ HandlerIdle /\ ServerIdle /\ RelayIdle

NextConvert == ConvertStart \/ ConvertImage \/ ConvertFinish

\* convert_images runs in a thread of its own (line 504) and waits for
\* nothing: it always goes on
SpecConvert == InitConvert /\ [][NextConvert]_vars /\ WF_vars(NextConvert)

(***************************************************************************)
(* The batch as an observer sees it                                        *)
(***************************************************************************)
ErrorsFor(p) ==
    Cardinality({ i \in 1..Len(log) : log[i].kind = "error" /\ log[i].name = p })

RecordsFor(p) ==
    Cardinality({ i \in 1..Len(log) : log[i].kind # "start" /\ log[i].name = p })

Artifact(p) == files[Stem(p)]

HasCompleteArtifact(p) ==
    /\ Artifact(p).present /\ Artifact(p).writer = p
    /\ Artifact(p).data = VdtBytes(p)

InBatch == cpc \in {"loop", "returned"} /\ imgs # <<>>

DistinctStems ==
    \A i, j \in 1..Len(imgs) : i # j => Stem(imgs[i]) # Stem(imgs[j])

(***************************************************************************)
(* C14: whatever images of a batch fail (unreadable file, resize, encode   *)
(* or write error), each failing image gets exactly one error record       *)
(* naming it, every non-failing image - also after a failing one - is      *)
(* processed and has its .vdt artifact at the end of its turn, images are  *)
(* processed in sorted order, and the batch always reaches the final       *)
(* record (3 images with the 2nd corrupt: 2 artifacts, 1 failure).         *)
(***************************************************************************)
C14_BatchState ==
    InBatch =>
        /\ \A i \in 1..(Len(imgs) - 1) : imgs[i] < imgs[i + 1]
        /\ { imgs[i] : i \in 1..Len(imgs) } = { p \in folder.names : IsImage(p) }
        /\ Len(outcomes) = turn /\ turn <= Len(imgs)
        /\ log[1] = LogRecord("start", Len(imgs), <<>>)
        /\ \A i \in 1..turn :
              /\ ErrorsFor(imgs[i]) = (IF outcomes[i].at = "none" THEN 0 ELSE 1)
              /\ RecordsFor(imgs[i]) >= 1
        /\ \A i \in (turn + 1)..Len(imgs) : RecordsFor(imgs[i]) = 0
        /\ \A i, j \in 2..Len(log) :
              (i < j /\ log[i].name > 0 /\ log[j].name > 0) => log[i].name <= log[j].name
        /\ (turn >= 1 /\ outcomes[turn].at = "none") => HasCompleteArtifact(imgs[turn])
        /\ cpc = "returned" =>
              /\ turn = Len(imgs)
              /\ log[Len(log)].kind = "finished"
              /\ \A i \in 1..(Len(log) - 1) : log[i].kind # "finished"
              /\ (/\ Len(imgs) = 3 /\ DistinctStems
                  /\ outcomes[1].at = "none" /\ outcomes[2].at = "load"
                  /\ outcomes[3].at = "none")
                 => /\ HasCompleteArtifact(imgs[1]) /\ HasCompleteArtifact(imgs[3])
                    /\ Artifact(imgs[2]).writer = 0
                    /\ Cardinality({ i \in 1..Len(log) : log[i].kind = "error" }) = 1

C14_FailureIsolation ==
    /\ []C14_BatchState
    /\ (cpc = "loop") ~> (cpc = "returned" /\ log[Len(log)].kind = "finished")

C14_Witness ==
    /\ cpc = "returned" /\ Len(imgs) = 3 /\ DistinctStems
    /\ outcomes[1].at = "none" /\ outcomes[2].at = "write" /\ outcomes[3].at = "none"
    /\ HasCompleteArtifact(imgs[3])
    /\ ErrorsFor(imgs[2]) = 1

(***************************************************************************)
(* C15: after a batch in which every image converted, the output folder    *)
(* holds one distinct .vdt artifact per source image, each with the frames *)
(* of that image only; no artifact is overwritten by another source of the *)
(* batch, also when two sources differ only by extension.                  *)
(***************************************************************************)
C15_OneArtifactPerSource ==
    (/\ cpc = "returned" /\ imgs # <<>>
     /\ \A i \in 1..Len(imgs) : outcomes[i].at = "none")
    => /\ \A i \in 1..Len(imgs) : HasCompleteArtifact(imgs[i])
       /\ Cardinality({ s \in StemSet : files[s].present /\ files[s].writer # 0 })
             = Len(imgs)

(***************************************************************************)
(* C16: at the end of the turn of every image exactly one of: (a) its      *)
(* artifact holds all its frames and no failure is recorded for it; (b) a  *)
(* failure is recorded for it and the run left no artifact, partial or     *)
(* complete, for it.                                                       *)
(***************************************************************************)
C16_AllOrNothing ==
    (InBatch /\ turn >= 1) =>
        LET p == imgs[turn]
            a == HasCompleteArtifact(p) /\ ErrorsFor(p) = 0
            b == ErrorsFor(p) >= 1 /\ ~(Artifact(p).present /\ Artifact(p).writer = p)
        IN  (a \/ b) /\ ~(a /\ b)

(***************************************************************************)
(* slideshow_handler                                                       *)
(***************************************************************************)
\* bound: the number of client connections
MaxClients == 1

Clients == 1..MaxClients

\* b"\x1B@" + b"\x1B:" + b"\x1B[25l"
INIT_SEQUENCE == <<27, 64, 27, 58, 27, 91, 50, 53, 108>>

\* b"\x1B[2J\x1B[H"
CLEAR == <<27, 91, 50, 74, 27, 91, 72>>

\* A .vdt file is the number of its stem in sorted order (a.vdt < b.vdt <
\* c.vdt); v.read_bytes() is the artifact convert_images wrote for the .png
\* source of that stem.
read_bytes(v) == VdtBytes((v - 1) * Len(Suffixes) + 2)

\* as NextFile, but the loop stays on the last file
NextFileNoRestart(v, n) == IF v = n THEN n ELSE v + 1

\* the file after vdt_files[v]: the next of the for loop, or the first one
\* when `while True` starts the for loop again
NextFile(v, n) == IF v = n THEN 1 ELSE v + 1

\* a connection nobody has opened yet; `first` and `last` are the first and
\* the latest message the client was sent, `lastFile` the latest file sent
NoConn == [pc |-> "none", v |-> 0, open |-> FALSE,
           first |-> <<>>, last |-> <<>>, lastFile |-> 0]

\* ws_conn.send(msg) on an open connection
Sent(conn, msg) ==
    [conn EXCEPT !.first = IF conn.first = <<>> THEN msg ELSE conn.first,
                 !.last = msg]

\* websockets.serve calls slideshow_handler for a new client
Connect(c) ==
    /\ conns[c].pc = "none"
    /\ conns' = [conns EXCEPT ![c] = [NoConn EXCEPT !.pc = "init", !.open = TRUE]]
    /\ UNCHANGED vdt_files
    /\ UNCHANGED <<pureVars, convertVars, serverVars, relayVars>>

\* the client, or the network, closes the connection
Disconnect(c) ==
    /\ conns[c].pc \notin {"none", "done"} /\ conns[c].open
    /\ conns' = [conns EXCEPT ![c].open = FALSE]
    /\ UNCHANGED vdt_files
    /\ UNCHANGED <<pureVars, convertVars, serverVars, relayVars>>

\* await ws_conn.send(INIT_SEQUENCE): outside the try, ConnectionClosed ends
\* the handler with the exception
SendInit(c) ==
    /\ conns[c].pc = "init"
    /\ conns' = [conns EXCEPT ![c] =
                    IF @.open THEN [Sent(@, INIT_SEQUENCE) EXCEPT !.pc = "init_sleep"]
                    ELSE [@ EXCEPT !.pc = "done"]]
    /\ UNCHANGED vdt_files
    /\ UNCHANGED <<pureVars, convertVars, serverVars, relayVars>>

\* await asyncio.sleep(0.1), then the first `for v in vdt_files`
InitSleep(c) ==
    /\ conns[c].pc = "init_sleep"
    /\ conns' = [conns EXCEPT ![c].pc = "clear", ![c].v = 1]
    /\ UNCHANGED vdt_files
    /\ UNCHANGED <<pureVars, convertVars, serverVars, relayVars>>

\* await ws_conn.send(CLEAR)
SendClear(c) ==
    /\ conns[c].pc = "clear"
    /\ conns' = [conns EXCEPT ![c] =
                    IF @.open THEN [Sent(@, CLEAR) EXCEPT !.pc = "clear_sleep"]
                    ELSE [@ EXCEPT !.pc = "done"]]
    /\ UNCHANGED vdt_files
    /\ UNCHANGED <<pureVars, convertVars, serverVars, relayVars>>

\* await asyncio.sleep(0.02)
ClearSleep(c) ==
    /\ conns[c].pc = "clear_sleep"
    /\ conns' = [conns EXCEPT ![c].pc = "send"]
    /\ UNCHANGED vdt_files
    /\ UNCHANGED <<pureVars, convertVars, serverVars, relayVars>>

\* data = v.read_bytes(); await ws_conn.send(data)
SendFile(c) ==
    /\ conns[c].pc = "send"
    /\ LET file == vdt_files[conns[c].v]
       IN  conns' = [conns EXCEPT ![c] =
                        IF @.open
                        THEN [Sent(@, read_bytes(file))
                                 EXCEPT !.pc = "delay", !.lastFile = file]
                        ELSE [@ EXCEPT !.pc = "done"]]
    /\ UNCHANGED vdt_files
    /\ UNCHANGED <<pureVars, convertVars, serverVars, relayVars>>

\* await asyncio.sleep(delay), then the next file
DelaySleep(c) ==
    /\ conns[c].pc = "delay"
    /\ conns' = [conns EXCEPT ![c].pc = "clear",
                              ![c].v = NextFile(@, Len(vdt_files))]
    /\ UNCHANGED vdt_files
    /\ UNCHANGED <<pureVars, convertVars, serverVars, relayVars>>

\* the steps of the handler of connection c
HandlerStep(c) ==
    \/ SendInit(c) \/ InitSleep(c) \/ SendClear(c)
    \/ ClearSleep(c) \/ SendFile(c) \/ DelaySleep(c)

\* vdt_files = sorted(Path(vdt_folder).glob("*.vdt")), not empty
InitHandler ==
    /\ vdt_files \in { SortedPaths(S) : S \in (SUBSET (1..Len(Stems))) \ {{}} }
    /\ conns = [c \in Clients |-> NoConn]
    /\ PureIdle /\ ConvertIdle /\ ServerIdle /\ RelayIdle

NextHandler ==
    \E c \in Clients :
        \/ Connect(c) \/ Disconnect(c)
        \/ SendInit(c) \/ InitSleep(c) \/ SendClear(c)
        \/ ClearSleep(c) \/ SendFile(c) \/ DelaySleep(c)

\* every await of a handler returns: a sleep ends, a send completes or raises
SpecHandler ==
    /\ InitHandler /\ [][NextHandler]_vars
    /\ \A c \in Clients : WF_vars(HandlerStep(c))

(***************************************************************************)
(* C18: on every connection the terminal-reset sequence is the first       *)
(* message, before any file; every transmission of a file's bytes is       *)
(* immediately preceded by the clear-screen sequence; the file bytes go    *)
(* verbatim in one message; files go in sorted order and the cycle         *)
(* restarts from the first file after the last; while the connection stays *)
(* open every file is transmitted infinitely often; the handler ends when  *)
(* the connection closes.                                                  *)
(***************************************************************************)
C18_Wire ==
    /\ \A i \in 1..(Len(vdt_files) - 1) : vdt_files[i] < vdt_files[i + 1]
    /\ \A c \in DOMAIN conns :
          LET h == conns[c]
          IN  /\ h.first \in {<<>>, INIT_SEQUENCE}
              /\ h.first = <<>> => (h.last = <<>> /\ h.lastFile = 0)
              /\ h.pc \in {"init_sleep", "clear", "clear_sleep", "send", "delay"}
                    => h.first = INIT_SEQUENCE
              /\ h.pc = "send" => h.last = CLEAR
              /\ h.pc = "delay" =>
                    (h.last = read_bytes(vdt_files[h.v]) /\ h.lastFile = vdt_files[h.v])

\* a step that sends a file sends the one after the latest file sent (the
\* first one at the start and after the last), right after a CLEAR
C18_FileStep ==
    \A c \in DOMAIN conns :
        (conns[c].pc = "send" /\ conns'[c].pc = "delay") =>
            /\ conns[c].last = CLEAR
            /\ conns'[c].last = read_bytes(conns'[c].lastFile)
            /\ LET sentBefore == { i \in 1..Len(vdt_files) :
                                      vdt_files[i] = conns[c].lastFile }
                   sentNow    == { i \in 1..Len(vdt_files) :
                                      vdt_files[i] = conns'[c].lastFile }
               IN  sentNow = IF sentBefore = {} \/ sentBefore = {Len(vdt_files)}
                             THEN {1}
                             ELSE { i + 1 : i \in sentBefore }

Alive(c) == conns[c].pc # "none" /\ conns[c].open

JustSent(c, i) ==
    i <= Len(vdt_files) /\ conns[c].pc = "delay" /\ conns[c].v = i

C18_Slideshow ==
    /\ []C18_Wire
    /\ [][C18_FileStep]_vars
    /\ \A c \in Clients : \A i \in 1..Len(Stems) :
          []<>(~Alive(c) \/ i > Len(vdt_files) \/ JustSent(c, i))
    /\ \A c \in Clients :
          (conns[c].pc # "none" /\ ~conns[c].open) ~> (conns[c].pc = "done")

C18_Witness ==
    /\ Len(vdt_files) = 3
    /\ conns[1].open /\ conns[1].pc = "send" /\ conns[1].v = 1 /\ conns[1].lastFile = 3
    /\ conns[1].first = INIT_SEQUENCE /\ conns[1].last = CLEAR

(***************************************************************************)
(* The slideshow server: launch_slideshow_server, _runner,                 *)
(* start_slideshow_server, stop_slideshow_server, _close_and_stop          *)
(*                                                                         *)
(* Event loops, threads, servers and coroutines are numbered in the order  *)
(* of their creation; 0 is None.  The n-th accepted launch creates loop n  *)
(* and thread n.  The GUI thread runs launch and stop one at a time; the   *)
(* _runner threads and the GUI thread interleave at every read and write   *)
(* of a module global.                                                     *)
(***************************************************************************)
\* bound: the number of accepted launches
MaxLaunch == 2

\* an event loop: `ranBy` the threads that have run it, `closedBy` the
\* thread that closed it, `stoppedFrom` the loops whose coroutines called
\* its stop()
NewLoop == [state |-> "idle", runner |-> 0, stopping |-> FALSE,
            ranBy |-> {}, closedBy |-> 0, stoppedFrom |-> {}]

\* the places where start_slideshow_server is suspended in an await, so that
\* its loop runs other callbacks and looks at its stop flag
AwaitPcs == {"serve", "poll", "fin_wait"}

SetGlobal(name, value) == [globals EXCEPT ![name] = value]

\* loop l taken by thread t in run_until_complete
Running(l, t) ==
    [loops EXCEPT ![l].state = "running", ![l].runner = t,
                  ![l].ranBy = @ \cup {t}]

\* run_until_complete on loop l returns or raises
Released(l) ==
    [loops EXCEPT ![l].state = "idle", ![l].runner = 0, ![l].stopping = FALSE]

\* server_loop.stop() called by a coroutine that runs on loop `from`
StopLoop(from) ==
    IF globals.server_loop = 0 THEN loops
    ELSE [loops EXCEPT ![globals.server_loop].stopping = TRUE,
                       ![globals.server_loop].stoppedFrom = @ \cup {from}]

\* thread t leaves run_until_complete and goes to the finally of _runner
LeaveRun(t) ==
    /\ threads' = [threads EXCEPT ![t].pc = "cleanup", ![t].loop = 0]
    /\ loops' = Released(threads[t].loop)

\* launch_slideshow_server while slideshow_server_running: "déjà démarré"
LaunchRejected ==
    /\ mainpc # "join"
    /\ globals.slideshow_server_running
    /\ mainpc' = "launch_rejected"
    /\ UNCHANGED <<globals, loops, servers, threads, tasks>>
    /\ UNCHANGED <<pureVars, convertVars, handlerVars, relayVars>>

\* launch_slideshow_server with a vdt_folder that does not exist
LaunchNoFolder ==
    /\ mainpc # "join"
    /\ ~globals.slideshow_server_running
    /\ mainpc' = "launch_no_folder"
    /\ UNCHANGED <<globals, loops, servers, threads, tasks>>
    /\ UNCHANGED <<pureVars, convertVars, handlerVars, relayVars>>

\* launch_slideshow_server: new event loop, new thread, started
LaunchAccepted ==
    /\ mainpc # "join"
    /\ ~globals.slideshow_server_running
    /\ Len(threads) < MaxLaunch
    /\ loops' = Append(loops, NewLoop)
    /\ threads' = Append(threads, [pc |-> "begin", loop |-> 0,
                                   afterStop |-> (mainpc = "stopped")])
    /\ globals' = [globals EXCEPT !.server_loop = Len(loops) + 1,
                                  !.server_thread = Len(threads) + 1]
    /\ mainpc' = "launched"
    /\ UNCHANGED <<servers, tasks>>
    /\ UNCHANGED <<pureVars, convertVars, handlerVars, relayVars>>

\* stop_slideshow_server while not slideshow_server_running
StopRejected ==
    /\ mainpc # "join"
    /\ ~globals.slideshow_server_running
    /\ mainpc' = "stop_rejected"
    /\ UNCHANGED <<globals, loops, servers, threads, tasks>>
    /\ UNCHANGED <<pureVars, convertVars, handlerVars, relayVars>>

\* stop_slideshow_server up to server_thread.join(timeout=2):
\* run_coroutine_threadsafe raises, and is ignored, on a closed loop
StopBegin ==
    /\ mainpc # "join"
    /\ globals.slideshow_server_running
    /\ globals' = SetGlobal("slideshow_server_running", FALSE)
    /\ tasks' = IF /\ globals.server_loop # 0 /\ globals.slideshow_server # 0
                   /\ loops[globals.server_loop].state # "closed"
                THEN Append(tasks, [loop |-> globals.server_loop, pc |-> "queued"])
                ELSE tasks
    /\ mainpc' = "join"
    /\ UNCHANGED <<loops, servers, threads>>
    /\ UNCHANGED <<pureVars, convertVars, handlerVars, relayVars>>

\* the join returns, the thread being finished or the 2 seconds over
StopEnd ==
    /\ mainpc = "join"
    /\ globals' = [globals EXCEPT !.slideshow_server = 0, !.server_loop = 0]
    /\ mainpc' = "stopped"
    /\ UNCHANGED <<loops, servers, threads, tasks>>
    /\ UNCHANGED <<pureVars, convertVars, handlerVars, relayVars>>

\* _runner: server_loop.run_until_complete(start_slideshow_server(...));
\* raises when server_loop is None, closed or already running
RunnerBegin(t) ==
    /\ t \in DOMAIN threads
    /\ threads[t].pc = "begin"
    /\ LET l == globals.server_loop
       IN  IF l = 0 \/ loops[l].state # "idle"
           THEN /\ threads' = [threads EXCEPT ![t].pc = "cleanup"]
                /\ UNCHANGED loops
           ELSE /\ threads' = [threads EXCEPT ![t].pc = "coro", ![t].loop = l]
                /\ loops' = Running(l, t)
    /\ UNCHANGED <<globals, servers, tasks, mainpc>>
    /\ UNCHANGED <<pureVars, convertVars, handlerVars, relayVars>>

\* start_slideshow_server: slideshow_server_running = True, then the glob;
\* without .vdt files the coroutine returns
CoroStart(t) ==
    /\ t \in DOMAIN threads
    /\ threads[t].pc = "coro"
    /\ globals' = SetGlobal("slideshow_server_running", TRUE)
    /\ \E found \in BOOLEAN :
          IF found
          THEN threads' = [threads EXCEPT ![t].pc = "serve"] /\ UNCHANGED loops
          ELSE LeaveRun(t)
    /\ UNCHANGED <<servers, tasks, mainpc>>
    /\ UNCHANGED <<pureVars, convertVars, handlerVars, relayVars>>

\* slideshow_server = await websockets.serve(...): OSError while another
\* server listens on the port
Serve(t) ==
    /\ t \in DOMAIN threads
    /\ threads[t].pc = "serve"
    /\ IF \E s \in DOMAIN servers : servers[s].state = "listening"
       THEN /\ LeaveRun(t)
            /\ UNCHANGED <<globals, servers>>
       ELSE /\ servers' = Append(servers, [state |-> "listening", owner |-> t])
            /\ globals' = SetGlobal("slideshow_server", Len(servers) + 1)
            /\ threads' = [threads EXCEPT ![t].pc = "poll"]
            /\ UNCHANGED loops
    /\ UNCHANGED <<tasks, mainpc>>
    /\ UNCHANGED <<pureVars, convertVars, handlerVars, relayVars>>

\* while slideshow_server_running: await asyncio.sleep(0.1) - the exit
Poll(t) ==
    /\ t \in DOMAIN threads
    /\ threads[t].pc = "poll"
    /\ ~globals.slideshow_server_running
    /\ threads' = [threads EXCEPT ![t].pc = "fin_close"]
    /\ UNCHANGED <<globals, loops, servers, tasks, mainpc>>
    /\ UNCHANGED <<pureVars, convertVars, handlerVars, relayVars>>

\* finally: slideshow_server.close() - AttributeError when the global is None
FinClose(t) ==
    /\ t \in DOMAIN threads
    /\ threads[t].pc = "fin_close"
    /\ IF globals.slideshow_server = 0
       THEN LeaveRun(t) /\ UNCHANGED servers
       ELSE /\ servers' = [servers EXCEPT ![globals.slideshow_server].state = "closed"]
            /\ threads' = [threads EXCEPT ![t].pc = "fin_wait"]
            /\ UNCHANGED loops
    /\ UNCHANGED <<globals, tasks, mainpc>>
    /\ UNCHANGED <<pureVars, convertVars, handlerVars, relayVars>>

\* await slideshow_server.wait_closed(), the log, and the coroutine returns;
\* AttributeError when the global is None
FinWait(t) ==
    /\ t \in DOMAIN threads
    /\ threads[t].pc = "fin_wait"
    /\ LeaveRun(t)
    /\ UNCHANGED <<globals, servers, tasks, mainpc>>
    /\ UNCHANGED <<pureVars, convertVars, handlerVars, relayVars>>

\* the loop of thread t finds its stop flag set: run_until_complete raises
\* "Event loop stopped before Future completed"
LoopStopped(t) ==
    /\ t \in DOMAIN threads
    /\ threads[t].pc \in AwaitPcs
    /\ loops[threads[t].loop].stopping
    /\ LeaveRun(t)
    /\ UNCHANGED <<globals, servers, tasks, mainpc>>
    /\ UNCHANGED <<pureVars, convertVars, handlerVars, relayVars>>

\* _runner, finally: server_loop.run_until_complete(shutdown_asyncgens())
\* inside try/except: runs on the loop the global names if it is idle
RunnerShutdown(t) ==
    /\ t \in DOMAIN threads
    /\ threads[t].pc = "cleanup"
    /\ LET l == globals.server_loop
       IN  loops' = IF l # 0 /\ loops[l].state = "idle"
                    THEN [loops EXCEPT ![l].ranBy = @ \cup {t}, ![l].stopping = FALSE]
                    ELSE loops
    /\ threads' = [threads EXCEPT ![t].pc = "close"]
    /\ UNCHANGED <<globals, servers, tasks, mainpc>>
    /\ UNCHANGED <<pureVars, convertVars, handlerVars, relayVars>>

\* _runner, finally: server_loop.close() - raises, and ends the thread, when
\* the global is None or names a running loop
RunnerClose(t) ==
    /\ t \in DOMAIN threads
    /\ threads[t].pc = "close"
    /\ LET l == globals.server_loop
       IN  IF l = 0 \/ loops[l].state = "running"
           THEN threads' = [threads EXCEPT ![t].pc = "crashed"] /\ UNCHANGED loops
           ELSE /\ threads' = [threads EXCEPT ![t].pc = "done"]
                /\ loops' = IF loops[l].state = "closed" THEN loops
                            ELSE [loops EXCEPT ![l].state = "closed",
                                               ![l].closedBy = t]
    /\ UNCHANGED <<globals, servers, tasks, mainpc>>
    /\ UNCHANGED <<pureVars, convertVars, handlerVars, relayVars>>

\* coroutine k is run by the thread that runs its loop, between two steps of
\* start_slideshow_server
TaskRuns(k) ==
    LET l == tasks[k].loop
    IN  loops[l].runner # 0 /\ threads[loops[l].runner].pc \in AwaitPcs

\* _close_and_stop: slideshow_server.close(); when the global is None the
\* exception is ignored and the finally calls server_loop.stop() at once
TaskClose(k) ==
    /\ k \in DOMAIN tasks
    /\ tasks[k].pc = "queued" /\ TaskRuns(k)
    /\ IF globals.slideshow_server = 0
       THEN /\ loops' = StopLoop(tasks[k].loop)
            /\ tasks' = [tasks EXCEPT ![k].pc = "done"]
            /\ UNCHANGED servers
       ELSE /\ servers' = [servers EXCEPT ![globals.slideshow_server].state = "closed"]
            /\ tasks' = [tasks EXCEPT ![k].pc = "waiting"]
            /\ UNCHANGED loops
    /\ UNCHANGED <<globals, threads, mainpc>>
    /\ UNCHANGED <<pureVars, convertVars, handlerVars, relayVars>>

\* _close_and_stop: wait_closed() returns, finally: server_loop.stop()
TaskStop(k) ==
    /\ k \in DOMAIN tasks
    /\ tasks[k].pc = "waiting" /\ TaskRuns(k)
    /\ loops' = StopLoop(tasks[k].loop)
    /\ tasks' = [tasks EXCEPT ![k].pc = "done"]
    /\ UNCHANGED <<globals, servers, threads, mainpc>>
    /\ UNCHANGED <<pureVars, convertVars, handlerVars, relayVars>>

InitServer == ServerIdle /\ PureIdle /\ ConvertIdle /\ HandlerIdle /\ RelayIdle

NextServer ==
    \/ LaunchRejected \/ LaunchNoFolder \/ LaunchAccepted
    \/ StopRejected \/ StopBegin \/ StopEnd
    \/ \E t \in 1..MaxLaunch :
          \/ RunnerBegin(t) \/ CoroStart(t) \/ Serve(t) \/ Poll(t) \/ FinClose(t)
          \/ FinWait(t) \/ LoopStopped(t) \/ RunnerShutdown(t) \/ RunnerClose(t)
    \/ \E k \in 1..MaxLaunch : TaskClose(k) \/ TaskStop(k)

SpecServer == InitServer /\ [][NextServer]_vars

(***************************************************************************)
(* C19: the server is restartable.  For a launch accepted right after      *)
(* stop_slideshow_server returned, whatever the old thread is still doing  *)
(* (it may outlive the 2-second join): the event loop the new launch       *)
(* created is run and closed by the thread of that launch only, never by   *)
(* the cleanup of the old thread, and is stopped only by a coroutine of    *)
(* its own, so that the old server's closing cannot end the new server.    *)
(***************************************************************************)
C19_Restartable ==
    \A t \in DOMAIN threads :
        threads[t].afterStop =>
            /\ loops[t].ranBy \subseteq {t}
            /\ loops[t].closedBy \in {0, t}
            /\ loops[t].stoppedFrom \subseteq {t}

(***************************************************************************)
(* C20: at most one slideshow server is starting or listening at any time, *)
(* a second launch before any stop being rejected, also when it comes      *)
(* before the thread of the first launch has begun start_slideshow_server. *)
(***************************************************************************)
Starting(t) == threads[t].pc \in {"begin", "coro", "serve"}

Listening(t) ==
    \E s \in DOMAIN servers : servers[s].owner = t /\ servers[s].state = "listening"

C20_SingleServer ==
    Cardinality({ t \in DOMAIN threads : Starting(t) \/ Listening(t) }) <= 1

(***************************************************************************)
(* C21: slideshow_server_running is True only while a server thread is     *)
(* starting or serving: once start_slideshow_server has ended without a    *)
(* listening server (no .vdt file in the folder, or websockets.serve       *)
(* failed) the flag is False, so that the next launch is accepted without  *)
(* a stop in between.                                                      *)
(***************************************************************************)
StartingOrServing(t) == threads[t].pc \in {"begin", "coro", "serve", "poll"}

C21_RunningFlag ==
    globals.slideshow_server_running =>
        \E t \in DOMAIN threads : StartingOrServing(t)

(***************************************************************************)
(* The relay client: start_async, _run, websocket_task (w2m, m2w,          *)
(* keepalive), stop_connection                                             *)
(*                                                                         *)
(* The n-th accepted start_async starts session n: a thread whose loop     *)
(* runs websocket_task.  The three relay coroutines of a session take      *)
(* turns at their awaits; the sessions and the GUI thread interleave at    *)
(* every read and write of running, ser and ws.                            *)
(***************************************************************************)
\* bound: the number of accepted start_async calls
MaxSessions == 2

\* a session: the place of websocket_task, of its three coroutines, the
\* serial port and the websocket it opened, and the websocket on which its
\* w2m awaits recv()
NewSession == [pc |-> "begin", w2m |-> "idle", m2w |-> "idle", keepalive |-> "idle",
               serial |-> "none", socket |-> "none", waits |-> 0]

\* start_async while running: "Déjà connecté."
StartRejected ==
    /\ running
    /\ guipc' = "start_rejected"
    /\ UNCHANGED <<running, ser, ws, sessions>>
    /\ UNCHANGED <<pureVars, convertVars, handlerVars, serverVars>>

\* start_async: running = True, new loop, thread started
StartAccepted ==
    /\ ~running
    /\ Len(sessions) < MaxSessions
    /\ running' = TRUE
    /\ sessions' = Append(sessions, NewSession)
    /\ guipc' = "started"
    /\ UNCHANGED <<ser, ws>>
    /\ UNCHANGED <<pureVars, convertVars, handlerVars, serverVars>>

\* stop_connection
StopConnection ==
    /\ running' = FALSE
    /\ guipc' = "stopped"
    /\ UNCHANGED <<ser, ws, sessions>>
    /\ UNCHANGED <<pureVars, convertVars, handlerVars, serverVars>>

\* websocket_task: ser = serial.Serial(...); on an exception, log and return
OpenSerial(n) ==
    /\ n \in DOMAIN sessions
    /\ sessions[n].pc = "begin"
    /\ \E opened \in BOOLEAN :
          IF opened
          THEN /\ ser' = n
               /\ sessions' = [sessions EXCEPT ![n].pc = "connect", ![n].serial = "open"]
          ELSE /\ sessions' = [sessions EXCEPT ![n].pc = "ended"]
               /\ UNCHANGED ser
    /\ UNCHANGED <<running, ws, guipc>>
    /\ UNCHANGED <<pureVars, convertVars, handlerVars, serverVars>>

\* websocket_task: ws = await websockets.connect(url), the greeting, and the
\* three coroutines handed to gather; on an exception, the except and then
\* the finally
ConnectWs(n) ==
    /\ n \in DOMAIN sessions
    /\ sessions[n].pc = "connect"
    /\ \E connected \in BOOLEAN :
          IF connected
          THEN /\ ws' = n
               /\ sessions' = [sessions EXCEPT ![n].pc = "gather", ![n].socket = "open",
                                               ![n].w2m = "test", ![n].m2w = "test",
                                               ![n].keepalive = "test"]
          ELSE /\ sessions' = [sessions EXCEPT ![n].pc = "finally"]
               /\ UNCHANGED ws
    /\ UNCHANGED <<running, ser, guipc>>
    /\ UNCHANGED <<pureVars, convertVars, handlerVars, serverVars>>

\* `while running:` of a relay coroutine: into the body, or out of the loop
LoopTest(flag, body) == IF flag THEN body ELSE "end"

\* w2m: while running, then data = await ws.recv() on the websocket the
\* global names
W2mTest(n) ==
    /\ n \in DOMAIN sessions
    /\ sessions[n].w2m = "test"
    /\ sessions' = [sessions EXCEPT ![n].w2m = LoopTest(running, "recv"),
                                    ![n].waits = IF running THEN ws ELSE 0]
    /\ UNCHANGED <<running, ser, ws, guipc>>
    /\ UNCHANGED <<pureVars, convertVars, handlerVars, serverVars>>

\* w2m: a message arrives and is written to the serial port the global names
\* (an exception, and the break, when that port is closed)
W2mRecv(n) ==
    /\ n \in DOMAIN sessions
    /\ sessions[n].w2m = "recv"
    /\ sessions[sessions[n].waits].socket = "open"
    /\ sessions' = [sessions EXCEPT ![n].w2m =
                       IF sessions[ser].serial = "open" THEN "test" ELSE "end",
                                    ![n].waits = 0]
    /\ UNCHANGED <<running, ser, ws, guipc>>
    /\ UNCHANGED <<pureVars, convertVars, handlerVars, serverVars>>

\* w2m: recv() raises on a closed websocket: break
W2mClosed(n) ==
    /\ n \in DOMAIN sessions
    /\ sessions[n].w2m = "recv"
    /\ sessions[sessions[n].waits].socket = "closed"
    /\ sessions' = [sessions EXCEPT ![n].w2m = "end", ![n].waits = 0]
    /\ UNCHANGED <<running, ser, ws, guipc>>
    /\ UNCHANGED <<pureVars, convertVars, handlerVars, serverVars>>

\* m2w: while running
M2wTest(n) ==
    /\ n \in DOMAIN sessions
    /\ sessions[n].m2w = "test"
    /\ sessions' = [sessions EXCEPT ![n].m2w = LoopTest(running, "work")]
    /\ UNCHANGED <<running, ser, ws, guipc>>
    /\ UNCHANGED <<pureVars, convertVars, handlerVars, serverVars>>

\* m2w: ser.in_waiting raises on a closed port; with bytes waiting, read and
\* ws.send (which raises on a closed websocket); without, sleep(0.05)
M2wWork(n) ==
    /\ n \in DOMAIN sessions
    /\ sessions[n].m2w = "work"
    /\ \E waiting \in BOOLEAN :
          sessions' = [sessions EXCEPT ![n].m2w =
                          IF sessions[ser].serial # "open" THEN "end"
                          ELSE IF waiting /\ sessions[ws].socket # "open" THEN "end"
                          ELSE "test"]
    /\ UNCHANGED <<running, ser, ws, guipc>>
    /\ UNCHANGED <<pureVars, convertVars, handlerVars, serverVars>>

\* keepalive: while running
KeepaliveTest(n) ==
    /\ n \in DOMAIN sessions
    /\ sessions[n].keepalive = "test"
    /\ sessions' = [sessions EXCEPT ![n].keepalive = LoopTest(running, "ping")]
    /\ UNCHANGED <<running, ser, ws, guipc>>
    /\ UNCHANGED <<pureVars, convertVars, handlerVars, serverVars>>

\* keepalive: await ws.ping(), which raises on a closed websocket
KeepalivePing(n) ==
    /\ n \in DOMAIN sessions
    /\ sessions[n].keepalive = "ping"
    /\ sessions' = [sessions EXCEPT ![n].keepalive =
                       IF sessions[ws].socket = "open" THEN "sleep" ELSE "end"]
    /\ UNCHANGED <<running, ser, ws, guipc>>
    /\ UNCHANGED <<pureVars, convertVars, handlerVars, serverVars>>

\* keepalive: await asyncio.sleep(20)
KeepaliveSleep(n) ==
    /\ n \in DOMAIN sessions
    /\ sessions[n].keepalive = "sleep"
    /\ sessions' = [sessions EXCEPT ![n].keepalive = "test"]
    /\ UNCHANGED <<running, ser, ws, guipc>>
    /\ UNCHANGED <<pureVars, convertVars, handlerVars, serverVars>>

\* await asyncio.gather(w2m(), m2w(), keepalive()) returns when all three
\* have left their loops
GatherDone(n) ==
    /\ n \in DOMAIN sessions
    /\ sessions[n].pc = "gather"
    /\ sessions[n].w2m = "end" /\ sessions[n].m2w = "end" /\ sessions[n].keepalive = "end"
    /\ sessions' = [sessions EXCEPT ![n].pc = "finally"]
    /\ UNCHANGED <<running, ser, ws, guipc>>
    /\ UNCHANGED <<pureVars, convertVars, handlerVars, serverVars>>

\* finally: running = False
FinallyFlag(n) ==
    /\ n \in DOMAIN sessions
    /\ sessions[n].pc = "finally"
    /\ running' = FALSE
    /\ sessions' = [sessions EXCEPT ![n].pc = "close_ws"]
    /\ UNCHANGED <<ser, ws, guipc>>
    /\ UNCHANGED <<pureVars, convertVars, handlerVars, serverVars>>

\* finally: if ws: await ws.close() - the websocket the global names
FinallyCloseWs(n) ==
    /\ n \in DOMAIN sessions
    /\ sessions[n].pc = "close_ws"
    /\ sessions' = IF ws = 0 THEN [sessions EXCEPT ![n].pc = "close_ser"]
                   ELSE [sessions EXCEPT ![n].pc = "close_ser", ![ws].socket = "closed"]
    /\ UNCHANGED <<running, ser, ws, guipc>>
    /\ UNCHANGED <<pureVars, convertVars, handlerVars, serverVars>>

\* finally: if ser: ser.close() - the port the global names; the task ends
FinallyCloseSer(n) ==
    /\ n \in DOMAIN sessions
    /\ sessions[n].pc = "close_ser"
    /\ sessions' = IF ser = 0 THEN [sessions EXCEPT ![n].pc = "ended"]
                   ELSE [sessions EXCEPT ![n].pc = "ended", ![ser].serial = "closed"]
    /\ UNCHANGED <<running, ser, ws, guipc>>
    /\ UNCHANGED <<pureVars, convertVars, handlerVars, serverVars>>

\* the remote end closes the websocket session n opened
RemoteClose(n) ==
    /\ n \in DOMAIN sessions
    /\ sessions[n].socket = "open"
    /\ sessions' = [sessions EXCEPT ![n].socket = "closed"]
    /\ UNCHANGED <<running, ser, ws, guipc>>
    /\ UNCHANGED <<pureVars, convertVars, handlerVars, serverVars>>

\* the steps websocket_task takes by itself
TaskStep(n) ==
    \/ OpenSerial(n) \/ ConnectWs(n) \/ GatherDone(n)
    \/ FinallyFlag(n) \/ FinallyCloseWs(n) \/ FinallyCloseSer(n)

\* the steps w2m takes without a message from the remote end
W2mStep(n) == W2mTest(n) \/ W2mClosed(n)

M2wStep(n) == M2wTest(n) \/ M2wWork(n)

KeepaliveStep(n) == KeepaliveTest(n) \/ KeepalivePing(n) \/ KeepaliveSleep(n)

InitRelay == RelayIdle /\ PureIdle /\ ConvertIdle /\ HandlerIdle /\ ServerIdle

NextRelay ==
    \/ StartRejected \/ StartAccepted \/ StopConnection
    \/ \E n \in 1..MaxSessions :
          \/ OpenSerial(n) \/ ConnectWs(n)
          \/ W2mTest(n) \/ W2mRecv(n) \/ W2mClosed(n)
          \/ M2wTest(n) \/ M2wWork(n)
          \/ KeepaliveTest(n) \/ KeepalivePing(n) \/ KeepaliveSleep(n)
          \/ GatherDone(n) \/ FinallyFlag(n) \/ FinallyCloseWs(n) \/ FinallyCloseSer(n)
          \/ RemoteClose(n)

\* Every thread runs and every ready coroutine of a loop gets its turn; a
\* message from the remote end, its closing, and the user's clicks may never
\* come.
SpecRelay ==
    /\ InitRelay /\ [][NextRelay]_vars
    /\ \A n \in 1..MaxSessions :
          /\ WF_vars(TaskStep(n)) /\ WF_vars(W2mStep(n))
          /\ WF_vars(M2wStep(n)) /\ WF_vars(KeepaliveStep(n))

(***************************************************************************)
(* C22: whenever websocket_task has terminated, for whatever reason        *)
(* (serial port not opened, websocket connection failed, relay loops       *)
(* ended), running is False: with no relay session left a start_async is   *)
(* not rejected.                                                           *)
(***************************************************************************)
NoSession == \A n \in DOMAIN sessions : sessions[n].pc = "ended"

C22_FlagCleared == NoSession => ~running

(***************************************************************************)
(* C23: after stop_connection has set running to False every relay session *)
(* ends - its three loops leave, the cleanup runs, its websocket and its   *)
(* serial port are closed - even when no message ever arrives from the     *)
(* websocket; and at no time, a start_async after the stop included, are   *)
(* two sessions relaying at once.                                          *)
(***************************************************************************)
\* session n is inside one of its relay loops
Relaying(n) ==
    /\ sessions[n].pc = "gather"
    /\ \/ sessions[n].w2m = "recv"
       \/ sessions[n].m2w = "work"
       \/ sessions[n].keepalive \in {"ping", "sleep"}

C23_OneSession == Cardinality({ n \in DOMAIN sessions : Relaying(n) }) <= 1

\* the stop is the user's last click, running is False, session n is not over
StopPending(n) ==
    /\ n \in DOMAIN sessions /\ sessions[n].pc # "ended"
    /\ guipc = "stopped" /\ ~running

SessionEnded(n) ==
    /\ n \in DOMAIN sessions /\ sessions[n].pc = "ended"
    /\ sessions[n].socket # "open" /\ sessions[n].serial # "open"

\* the session ends unless the user clicks again
C23_StopEnds ==
    \A n \in 1..MaxSessions : StopPending(n) ~> (SessionEnded(n) \/ guipc # "stopped")

C23_StopEndsSession == C23_StopEnds /\ []C23_OneSession

====
